---------------------------- MODULE Spec2Model ----------------------------
(***************************************************************************)
(* The asynchronous delivery subsystem of the datanadhi log SDK:           *)
(* AsyncProcessor (workers, routing), SafeQueue (ring + writeback buffer), *)
(* ServerHealthMonitor (probe threads), DrainWorker and the dropped-event  *)
(* store.  Events are numbered in the order in which submit is called.     *)
(***************************************************************************)
EXTENDS Integers, Sequences, FiniteSets, TLC

(* ------------------------------ bounds --------------------------------- *)
\* number of submit calls made by the application
MaxEvents == 2
\* number of submit calls made during a backend outage (OutageSpec)
OutageEvents == 4
\* config["async_queue_size"] of the modelled processor
QueueSize == 1
\* last millisecond value of the clock read by store_dropped_data
MaxTime == 1
\* cap of the put_nowait calls that put a written back item into the ring
\* again (each adds one to Queue.unfinished_tasks, which is otherwise unbounded)
MaxRequeues == 2
\* cap of the drain threads that were replaced while still alive
MaxDrainOrphans == 1
\* number of threads that call flush (the atexit hook, application threads)
MaxFlushCallers == 2
\* number of threads that call get_processor_for_directory
MaxRegistryCallers == 2
\* largest HTTP status a sink is taken to answer with
MaxStatus == 599
\* number of groups (action, rules) of a compiled rule table
MaxGroups == 1
\* number of conditions of a clause of a compiled rule table
MaxConditions == 1
\* number of raw rules read from the rule files
MaxRawRules == 2
\* number of sidecar processes spawned
MaxSpawns == 2
\* number of submit calls before and during a shutdown
ShutdownEvents == 3

(* ------------------------- program constants --------------------------- *)
NumWorkers == 2
StartPct == 90
StopPct == 10
FallbackBatchExtra == 99
DrainBatch == 100

Events == 1..(IF MaxEvents > OutageEvents THEN MaxEvents ELSE OutageEvents)
Workers == 1..NumWorkers
Keys == {"primary", "fallback"}
Reasons == {"primary_failed", "fallback_failed", "drain_worker_failed"}
Times == 0..MaxTime
FlushCallers == 1..MaxFlushCallers
RegistryCallers == 1..MaxRegistryCallers

\* What a POST can come back with: an HTTP status, a requests.RequestException
\* (connection error, timeout) or another exception raised while sending.
Responses ==
  [kind : {"http"}, code : {101, 200, 500, 503}]
    \cup {[kind |-> "transport", code |-> 0], [kind |-> "raise", code |-> 0]}

\* the responses of a backend that is unavailable
OutageResponses ==
  {[kind |-> "http", code |-> 503], [kind |-> "transport", code |-> 0]}

\* the responses of a backend that answers the request
ReachableResponses == {r \in Responses : r.kind = "http" /\ r.code <= 500}

EchopostOutcomes == {"start_failed", "sent", "not_sent", "raise"}

VARIABLES
  submitted,          \* number of submit calls so far
  accepted,           \* events for which submit returned True
  ring,               \* SafeQueue._queue
  wb,                 \* SafeQueue._writeback_buffer
  unfinished,         \* Queue.unfinished_tasks
  wpc,                \* worker -> "idle" | "got"
  witem,              \* worker -> the item it holds (0: none)
  is_healthy,         \* ServerHealthMonitor._is_healthy
  probe_thread,       \* state of the thread in _check_threads[key]
  probe_orphans,      \* alive probe threads no longer in _check_threads
  echopost_disabled,  \* AsyncProcessor.echopost_disabled
  is_running,         \* DrainWorker._is_running
  drain_thread,       \* state of DrainWorker._worker_thread
  drain_orphans,      \* alive drain threads no longer in _worker_thread
  dbatch,             \* the batch held by the drain thread
  files,              \* dropped/<reason>_<ms>.jsonl -> its records
  now,                \* last clock value read
  delivered,          \* event -> number of successful sends
  done,               \* event -> number of task_done calls made for it
  dropWrites,         \* event -> number of times written to the dropped store
  unavail,            \* events answered is_unavailable, no other answer since
  pfailed,            \* events the primary answered with is_failure
  lpc,                \* position of Logger.__init__
  force_disable_echopost,  \* ResolvedConfig.force_disable_echopost
  cfg_echopost_disable,    \* Logger.config["echopost_disable"]
  download,           \* what ensure_binary_exists came back with
  shutdown,           \* AsyncProcessor._shutdown is set
  fpc,                \* flush caller -> "idle" | "waiting" | "done"
  helpers,            \* number of wait_for_queue threads started by flush
  pushed,             \* Logger.wait_till_logs_pushed has returned
  processors,         \* _PROCESSORS: key -> instance (0: no entry)
  registry_lock,      \* the caller that holds _LOCK (0: free)
  rpc,                \* caller -> its position in get_processor_for_directory
  rpath,              \* caller -> its datanadhi_dir argument
  rnew,               \* caller -> the instance it has constructed (0: none)
  rres,               \* caller -> the instance returned to it (0: none yet)
  built,              \* number of AsyncProcessor instances constructed
  response,           \* the response a sink adapter's send meets
  send_result,        \* the dict that send returned for it
  log_dict,           \* the payload given to the rule engine
  condition,          \* the Condition given to match_condition
  match_result,       \* what match_condition returned for it
  rule_actions,       \* the RuleActions given to evaluate_rules
  rule_result,        \* what evaluate_rules returned
  raw_rules,          \* the raw rules loaded from the rule files
  compiled,           \* build_rules_from_files has returned the table
  qbuf,               \* worker -> its local buf / buffer_copy, what is left
  qlock,              \* the worker that holds SafeQueue._lock (0: free)
  waiting,            \* events written back and not in the ring since
  returned,           \* those whose writeback_batch call has returned
  before,             \* event -> the events of returned when its call began
  epc,                \* worker -> its position in start_if_socket_not_exists
  socket,             \* the socket file exists
  start_lock,         \* the worker that holds the start lock (0: free)
  spawned,            \* number of sidecar processes spawned so far
  binding,            \* spawned processes that have not created their socket yet
  estart,             \* worker -> what its start call returned
  hm_is_healthy,      \* ServerHealthMonitor._is_healthy as the dict it is: key -> bool
  hm_check_threads    \* ServerHealthMonitor._check_threads: key -> state of its thread

qvars == <<ring, wb, unfinished>>
wvars == <<wpc, witem>>
hvars == <<is_healthy, probe_thread, probe_orphans>>
dvars == <<is_running, drain_thread, drain_orphans, dbatch>>
svars == <<files, now>>
histvars == <<delivered, done, dropWrites, unavail, pfailed>>
lvars == <<lpc, force_disable_echopost, cfg_echopost_disable, download>>
fvars == <<shutdown, fpc, helpers, pushed>>
rvars == <<processors, registry_lock, rpc, rpath, rnew, rres, built>>
pvars == <<response, send_result, log_dict, condition, match_result,
           rule_actions, rule_result, raw_rules, compiled>>
sqvars == <<qbuf, qlock, waiting, returned, before>>
evars == <<epc, socket, start_lock, spawned, binding, estart>>
mvars == <<hm_is_healthy, hm_check_threads>>
lifevars == <<lvars, fvars, rvars, pvars, sqvars, evars, mvars>>
vars == <<submitted, accepted, qvars, wvars, hvars, echopost_disabled, dvars,
          svars, histvars, lifevars>>

(* ------------------------------ helpers -------------------------------- *)
Min(a, b) == IF a < b THEN a ELSE b

Range(s) == {s[i] : i \in 1..Len(s)}

Take(s, n) == SubSeq(s, 1, Min(n, Len(s)))

Drop(s, n) == SubSeq(s, Min(n, Len(s)) + 1, Len(s))

RECURSIVE SumUpTo(_, _)
SumUpTo(f, n) == IF n = 0 THEN 0 ELSE f[n] + SumUpTo(f, n - 1)

\* add 1 to f at every element of the set S
Bump(f, S) == [e \in DOMAIN f |-> IF e \in S THEN f[e] + 1 ELSE f[e]]


(* ------------------------------ SafeQueue ------------------------------ *)
\* A queue update: the new ring, the new writeback buffer and the number of
\* put_nowait calls that succeeded (each adds one to unfinished_tasks).
SameQueue == [ring |-> ring, wb |-> wb, puts |-> 0]

\* fill_percentage() >= pct/100, in integers
FillAtLeast(r, b, pct) == 100 * (Len(r) + Len(b)) >= pct * QueueSize

\* fill_percentage() > pct/100
FillAbove(r, b, pct) == 100 * (Len(r) + Len(b)) > pct * QueueSize

\* _try_drain_writeback on ring r and buffer b: the buffer is taken whole, its
\* items are put while the ring has room; at the first Full that one item is
\* appended to the (emptied) buffer and the loop breaks.
TryDrainWriteback(r, b) ==
  LET free == QueueSize - Len(r)
  IN  IF Len(b) <= free
        THEN [ring |-> r \o b, wb |-> <<>>, puts |-> Len(b)]
        ELSE [ring |-> r \o Take(b, free), wb |-> <<b[free + 1]>>, puts |-> free]

\* writeback_batch that "temporarily expands beyond maxsize": every item is
\* put whatever the ring holds
WritebackBatch_Unbounded(r, b, items) ==
  [ring |-> r \o b \o items, wb |-> <<>>, puts |-> Len(b) + Len(items)]

\* writeback_batch that appends every new item to the buffer, also those it
\* has put into the ring
WritebackBatch_Both(r, b, items) ==
  LET s == TryDrainWriteback(r, b)
      free == QueueSize - Len(s.ring)
  IN  [ring |-> s.ring \o Take(items, free),
       wb |-> s.wb \o items,
       puts |-> s.puts + Min(free, Len(items))]

\* writeback_batch that gives up the new items the ring has no room for
WritebackBatch_DropNew(r, b, items) ==
  LET s == TryDrainWriteback(r, b)
      free == QueueSize - Len(s.ring)
  IN  [ring |-> s.ring \o Take(items, free),
       wb |-> s.wb,
       puts |-> s.puts + Min(free, Len(items))]

\* writeback_batch(items): first the buffer (same loop as above, under the
\* lock), then every new item: put, or append to the buffer on Full.
WritebackBatch(r, b, items) ==
  LET s == TryDrainWriteback(r, b)
      free == QueueSize - Len(s.ring)
  IN  [ring |-> s.ring \o Take(items, free),
       wb |-> s.wb \o Drop(items, free),
       puts |-> s.puts + Min(free, Len(items))]

\* get(): _get, then _try_drain_writeback, then a second _get if the first
\* returned None.  item = 0 stands for None.
Get(r, b) ==
  LET first == IF r = <<>> THEN 0 ELSE Head(r)
      r1 == IF r = <<>> THEN r ELSE Tail(r)
      s == TryDrainWriteback(r1, b)
  IN  IF first # 0
        THEN [item |-> first, ring |-> s.ring, wb |-> s.wb, puts |-> s.puts]
        ELSE IF s.ring = <<>>
          THEN [item |-> 0, ring |-> s.ring, wb |-> s.wb, puts |-> s.puts]
          ELSE [item |-> Head(s.ring), ring |-> Tail(s.ring), wb |-> s.wb,
                puts |-> s.puts]

\* get_batch that reads the items and leaves them in the ring
GetBatch_Peek(r, n) == [items |-> Take(r, n), ring |-> r]

\* get_batch(n): up to n items from the head of the ring
GetBatch(r, n) == [items |-> Take(r, n), ring |-> Drop(r, n)]

(* --------------------------- sink adapters ----------------------------- *)
\* send with "is_failure": 300 <= status_code < 500
SendResult_Below500(resp) ==
  IF resp.kind = "http"
    THEN [success |-> (200 <= resp.code /\ resp.code < 300),
          is_failure |-> (300 <= resp.code /\ resp.code < 500),
          is_unavailable |-> resp.code > 500]
    ELSE [success |-> FALSE, is_failure |-> FALSE, is_unavailable |-> TRUE]

\* server/primary.py send and server/fallback.py send: the result record of a
\* response (an HTTP status or a RequestException)
SendResult(resp) ==
  IF resp.kind = "http"
    THEN [success |-> (200 <= resp.code /\ resp.code < 300),
          is_failure |-> (300 <= resp.code /\ resp.code <= 500),
          is_unavailable |-> resp.code > 500]
    ELSE [success |-> FALSE, is_failure |-> FALSE, is_unavailable |-> TRUE]

\* the responses a send can meet: every status, or a RequestException
SinkResponses ==
  [kind : {"http"}, code : 100..MaxStatus]
    \cup {[kind |-> "transport", code |-> 0]}

\* no send has returned yet
NoResult == [success |-> FALSE, is_failure |-> FALSE, is_unavailable |-> FALSE,
             returned |-> FALSE]

(* ------------------------- dropped-event store ------------------------- *)
\* store_dropped_data that returns without writing
StoreDropped_Skip(items, reason) == UNCHANGED <<files, now, dropWrites>>

\* store_dropped_data(dir, items, reason): the file <reason>_<ms>.jsonl is
\* opened with "wb" and receives one record per item; ms is the clock value.
StoreDropped(items, reason) ==
  \E ts \in now..MaxTime :
    /\ now' = ts
    /\ files' = [files EXCEPT ![<<reason, ts>>] = items]
    /\ dropWrites' = Bump(dropWrites, Range(items))

NoStore == UNCHANGED <<files, now, dropWrites>>

(* --------------------------- health monitor ---------------------------- *)
ThreadAlive(t) == t \in {"run", "exiting"}

\* set_health_down that starts a probe thread on every call
SetHealthDown_AlwaysStart(k) ==
  /\ is_healthy' = [is_healthy EXCEPT ![k] = FALSE]
  /\ probe_thread' = [probe_thread EXCEPT ![k] = "run"]
  /\ probe_orphans' =
       [probe_orphans EXCEPT
          ![k] = @ + (IF ThreadAlive(probe_thread[k]) THEN 1 ELSE 0)]

\* set_health_down(key): under the lock, mark the key down and start a probe
\* thread unless the one in _check_threads is alive.
SetHealthDown(k) ==
  /\ is_healthy' = [is_healthy EXCEPT ![k] = FALSE]
  /\ IF ThreadAlive(probe_thread[k])
       THEN UNCHANGED <<probe_thread, probe_orphans>>
       ELSE /\ probe_thread' = [probe_thread EXCEPT ![k] = "run"]
            /\ UNCHANGED probe_orphans

\* _health_check_loop: the probe answered healthy; under the lock the key is
\* marked up, then the loop breaks (the thread is still alive).
ProbeRecover(k) ==
  /\ probe_thread[k] = "run"
  /\ is_healthy' = [is_healthy EXCEPT ![k] = TRUE]
  /\ probe_thread' = [probe_thread EXCEPT ![k] = "exiting"]
  /\ UNCHANGED <<lifevars, submitted, accepted, qvars, wvars, probe_orphans,
                 echopost_disabled, dvars, svars, histvars>>

\* the probe thread returns from _health_check_loop
ProbeExit(k) ==
  /\ probe_thread[k] = "exiting"
  /\ probe_thread' = [probe_thread EXCEPT ![k] = "dead"]
  /\ UNCHANGED <<lifevars, submitted, accepted, qvars, wvars, is_healthy, probe_orphans,
                 echopost_disabled, dvars, svars, histvars>>

(* ------------------- health monitor, keyed by host --------------------- *)
\* the server hosts a monitor is asked about
Hosts == {"http://a", "http://b"}

\* _get_key that takes the host alone as the key
GetKey_HostOnly(server_host, is_fallback) == server_host

\* _get_key(server_host, is_fallback)
GetKey(server_host, is_fallback) ==
  IF is_fallback THEN "fallback:" \o server_host ELSE server_host

\* dict d with d[key] = value
DictSet(d, key, value) ==
  [k \in DOMAIN d \cup {key} |-> IF k = key THEN value ELSE d[k]]

\* d.get(key, default)
DictGet(d, key, default) == IF key \in DOMAIN d THEN d[key] ELSE default

\* is_server_up(server_host, is_fallback)
IsServerUp(server_host, is_fallback) ==
  DictGet(hm_is_healthy, GetKey(server_host, is_fallback), TRUE)

\* nothing but the monitor changes
MonitorIdle ==
  UNCHANGED <<submitted, accepted, qvars, wvars, hvars, echopost_disabled,
              dvars, svars, histvars, lvars, fvars, rvars, pvars, sqvars,
              evars>>

\* set_health_down(server_host, is_fallback): under the lock the key is set
\* to False, and a probe thread is started for it unless the one recorded
\* in _check_threads is alive
MonitorSetHealthDown(server_host, is_fallback) ==
  LET key == GetKey(server_host, is_fallback)
  IN  /\ hm_is_healthy' = DictSet(hm_is_healthy, key, FALSE)
      /\ hm_check_threads' =
           IF ThreadAlive(DictGet(hm_check_threads, key, "dead"))
             THEN hm_check_threads
             ELSE DictSet(hm_check_threads, key, "run")
      /\ MonitorIdle

\* _health_check_loop(server_host, is_fallback): the probe answered healthy,
\* the thread's key is set to True and the loop breaks
MonitorProbeRecover(server_host, is_fallback) ==
  LET key == GetKey(server_host, is_fallback)
  IN  /\ DictGet(hm_check_threads, key, "dead") = "run"
      /\ hm_is_healthy' = DictSet(hm_is_healthy, key, TRUE)
      /\ hm_check_threads' = DictSet(hm_check_threads, key, "exiting")
      /\ MonitorIdle

\* the probe thread returns from _health_check_loop
MonitorProbeExit(server_host, is_fallback) ==
  LET key == GetKey(server_host, is_fallback)
  IN  /\ DictGet(hm_check_threads, key, "dead") = "exiting"
      /\ hm_check_threads' = DictSet(hm_check_threads, key, "dead")
      /\ UNCHANGED hm_is_healthy
      /\ MonitorIdle

(* ----------------------------- drain worker ---------------------------- *)
DrainAlive(t) == t \in {"loop", "sleep", "send", "finally", "tail"}

\* start_if_needed(), called with the queue as r, b
StartIfNeeded(r, b) ==
  IF FillAtLeast(r, b, StartPct)
       /\ ~(is_running /\ DrainAlive(drain_thread))
    THEN /\ is_running' = TRUE
         /\ drain_thread' = "loop"
         /\ drain_orphans' =
              drain_orphans + (IF DrainAlive(drain_thread) THEN 1 ELSE 0)
         /\ drain_orphans' <= MaxDrainOrphans
    ELSE UNCHANGED <<is_running, drain_thread, drain_orphans>>


(* --------------------------- async processor --------------------------- *)
\* unfinished_tasks counts every put: the accepted events not yet
\* acknowledged, plus one for every put of a written back item
Requeues ==
  unfinished - (Cardinality(accepted) - SumUpTo(done, Cardinality(Events)))

\* The queue becomes q; task_done is called once for every event of acks
\* (a sequence); every event of sent (a sequence) was received by a sink.
Settle(q, acks, sent) ==
  /\ ring' = q.ring
  /\ wb' = q.wb
  /\ unfinished' = unfinished + q.puts - Len(acks)
  /\ done' = Bump(done, Range(acks))
  /\ Requeues + q.puts <= MaxRequeues
  /\ delivered' = Bump(delivered, Range(sent))

\* a worker loop that never tests _shutdown after handling an item
Release_KeepRunning(w) ==
  /\ wpc' = [wpc EXCEPT ![w] = "idle"]
  /\ witem' = [witem EXCEPT ![w] = 0]

\* the worker has handled its item and goes back to the while test: to
\* queue.get, or out of the loop when _shutdown is set
Release(w) ==
  /\ wpc' = [wpc EXCEPT ![w] = IF shutdown THEN "stopped" ELSE "idle"]
  /\ witem' = [witem EXCEPT ![w] = 0]

\* _worker_loop that takes the fallback strategy from the fallback's health
\* alone, whatever the sidecar latch says
Route_IgnoreLatch(primary_up, sidecar_disabled, fallback_up) ==
  IF primary_up THEN "primary"
  ELSE IF fallback_up THEN "fallback"
  ELSE IF sidecar_disabled THEN "writeback" ELSE "sidecar"

\* _worker_loop, the routing of a dequeued item from the health state it
\* reads: is_server_up(primary), self.echopost_disabled, is_server_up(fallback)
Route(primary_up, sidecar_disabled, fallback_up) ==
  IF primary_up THEN "primary"
  ELSE IF sidecar_disabled
    THEN (IF fallback_up THEN "fallback" ELSE "writeback")
    ELSE "sidecar"

\* the route the worker takes in the current state
RouteNow ==
  Route(is_healthy["primary"], echopost_disabled, is_healthy["fallback"])

\* submit(pipelines, payload): queue.add, then start_if_needed on success;
\* limit bounds the number of calls
Submit(limit) ==
  /\ lpc = "ready"
  /\ submitted < limit
  /\ submitted' = submitted + 1
  /\ IF Len(ring) < QueueSize
       THEN /\ accepted' = accepted \cup {submitted + 1}
            /\ ring' = Append(ring, submitted + 1)
            /\ unfinished' = unfinished + 1
            /\ StartIfNeeded(ring', wb)
            /\ UNCHANGED <<wb, dbatch>>
       ELSE UNCHANGED <<accepted, qvars, dvars>>
  /\ UNCHANGED <<wvars, hvars, echopost_disabled, svars, histvars, lifevars>>

\* _worker_loop: item = self.queue.get(timeout=1.0), item is not None
WorkerGet(w) ==
  LET g == Get(ring, wb)
  IN  /\ wpc[w] = "idle"
      /\ g.item # 0
      /\ wpc' = [wpc EXCEPT ![w] = "got"]
      /\ witem' = [witem EXCEPT ![w] = g.item]
      /\ Settle(g, <<>>, <<>>)
      /\ UNCHANGED <<lifevars, submitted, accepted, hvars, echopost_disabled, dvars,
                     svars, dropWrites, unavail, pfailed>>

\* _send_to_primary(session, item), the primary answering with resp
SendToPrimary(w, resp) ==
  LET e == witem[w]
      result == SendResult(resp)
  IN  /\ wpc[w] = "got"
      /\ RouteNow = "primary"
      /\ Release(w)
      /\ IF resp.kind = "raise"
           THEN /\ Settle(SameQueue, <<e>>, <<>>)
                /\ unavail' = {}
                /\ NoStore
                /\ UNCHANGED <<hvars, pfailed>>
           ELSE IF result.success
             THEN /\ Settle(SameQueue, <<e>>, <<e>>)
                  /\ unavail' = {}
                  /\ NoStore
                  /\ UNCHANGED <<hvars, pfailed>>
             ELSE IF result.is_unavailable
               THEN /\ Settle(WritebackBatch(ring, wb, <<e>>), <<>>, <<>>)
                    /\ SetHealthDown("primary")
                    /\ unavail' = unavail \cup {e}
                    /\ NoStore
                    /\ UNCHANGED pfailed
               ELSE IF result.is_failure
                 THEN /\ StoreDropped(<<e>>, "primary_failed")
                      /\ Settle(SameQueue, <<e>>, <<>>)
                      /\ unavail' = {}
                      /\ pfailed' = pfailed \cup {e}
                      /\ UNCHANGED hvars
                 ELSE /\ Settle(SameQueue, <<>>, <<>>)
                      /\ unavail' = {}
                      /\ NoStore
                      /\ UNCHANGED <<hvars, pfailed>>
      /\ UNCHANGED <<lifevars, submitted, accepted, echopost_disabled, dvars>>

\* _send_to_fallback_server(session, item), the fallback answering with resp
SendToFallback(w, resp) ==
  LET b == GetBatch(ring, FallbackBatchExtra)
      items == <<witem[w]>> \o b.items
      q == [ring |-> b.ring, wb |-> wb, puts |-> 0]
      result == SendResult(resp)
  IN  /\ wpc[w] = "got"
      /\ RouteNow = "fallback"
      /\ Release(w)
      /\ IF resp.kind = "raise"
           THEN /\ Settle(q, items, <<>>)
                /\ unavail' = {}
                /\ NoStore
                /\ UNCHANGED hvars
           ELSE IF result.success
             THEN /\ Settle(q, items, items)
                  /\ unavail' = {}
                  /\ NoStore
                  /\ UNCHANGED hvars
             ELSE IF result.is_unavailable
               THEN /\ Settle(WritebackBatch(b.ring, wb, items), <<>>, <<>>)
                    /\ SetHealthDown("fallback")
                    /\ unavail' = unavail \cup Range(items)
                    /\ NoStore
               ELSE IF result.is_failure
                 THEN /\ StoreDropped(items, "fallback_failed")
                      /\ Settle(q, items, <<>>)
                      /\ unavail' = {}
                      /\ UNCHANGED hvars
                 ELSE /\ Settle(q, <<>>, <<>>)
                      /\ unavail' = {}
                      /\ NoStore
                      /\ UNCHANGED hvars
      /\ UNCHANGED <<lifevars, submitted, accepted, echopost_disabled, dvars, pfailed>>

\* _worker_loop, primary down, sidecar disabled, fallback marked down:
\* self.queue.writeback_batch([item])
RequeueFallbackDown(w) ==
  /\ wpc[w] = "got"
  /\ RouteNow = "writeback"
  /\ Release(w)
  /\ Settle(WritebackBatch(ring, wb, <<witem[w]>>), <<>>, <<>>)
  /\ NoStore
  /\ UNCHANGED <<lifevars, submitted, accepted, hvars, echopost_disabled, dvars,
                 unavail, pfailed>>

\* _send_to_echopost that requeues the item and leaves the latch as it was
DisableEchopost_Forget == UNCHANGED echopost_disabled

\* self.echopost_disabled = True
DisableEchopost == echopost_disabled' = TRUE

\* _send_to_echopost(item) with the outcome of the sidecar start and send
SendToEchopost(w, outcome) ==
  /\ wpc[w] = "got"
  /\ RouteNow = "sidecar"
  /\ Release(w)
  /\ IF outcome = "sent"
       THEN /\ Settle(SameQueue, <<witem[w]>>, <<witem[w]>>)
            /\ unavail' = {}
            /\ UNCHANGED echopost_disabled
       ELSE /\ DisableEchopost
            /\ Settle(WritebackBatch(ring, wb, <<witem[w]>>), <<>>, <<>>)
            /\ UNCHANGED unavail
  /\ NoStore
  /\ UNCHANGED <<lifevars, submitted, accepted, hvars, dvars, pfailed>>

\* _worker_loop: queue.get returned None or the worker is at the while test,
\* and _shutdown is set: the loop ends
WorkerStop(w) ==
  /\ wpc[w] = "idle"
  /\ shutdown
  /\ wpc' = [wpc EXCEPT ![w] = "stopped"]
  /\ UNCHANGED <<submitted, accepted, qvars, witem, hvars, echopost_disabled,
                 dvars, svars, histvars, lifevars>>

(* --------------------- sidecar start, step by step --------------------- *)
\* nothing but the sidecar state changes
SidecarIdle ==
  UNCHANGED <<submitted, accepted, qvars, wvars, hvars, echopost_disabled,
              dvars, svars, histvars, lvars, fvars, rvars, pvars, sqvars,
              mvars>>

\* what start_if_socket_not_exists returns to w
StartReturn(w, value) ==
  /\ epc' = [epc EXCEPT ![w] = "idle"]
  /\ estart' = [estart EXCEPT ![w] = value]

\* start_if_socket_not_exists: the first socket_exists test
StartCheck(w) ==
  /\ epc[w] = "idle"
  /\ IF socket
       THEN StartReturn(w, "true")
       ELSE /\ epc' = [epc EXCEPT ![w] = "lock"]
            /\ estart' = [estart EXCEPT ![w] = "none"]
  /\ UNCHANGED <<socket, start_lock, spawned, binding>>
  /\ SidecarIdle

\* with lock: the caller waits until the start lock of the directory is free
StartAcquire(w) ==
  /\ epc[w] = "lock"
  /\ start_lock = 0
  /\ start_lock' = w
  /\ epc' = [epc EXCEPT ![w] = "locked"]
  /\ UNCHANGED <<socket, spawned, binding, estart>>
  /\ SidecarIdle

\* the second socket_exists test, under the lock; the with block ends when
\* the socket is there
StartRecheck(w) ==
  /\ epc[w] = "locked"
  /\ IF socket
       THEN /\ epc' = [epc EXCEPT ![w] = "wait"]
            /\ start_lock' = 0
       ELSE /\ epc' = [epc EXCEPT ![w] = "spawn"]
            /\ UNCHANGED start_lock
  /\ UNCHANGED <<socket, spawned, binding, estart>>
  /\ SidecarIdle

\* start_echopost_detached: False without the binary; else the socket path
\* is deleted and the binary spawned (Popen may raise: False); the with
\* block ends and the lock is released before wait_for_socket
StartEchopostDetached(w, binary_exists, popen_ok) ==
  /\ epc[w] = "spawn"
  /\ start_lock' = 0
  /\ IF ~binary_exists
       THEN /\ StartReturn(w, "false")
            /\ UNCHANGED <<socket, spawned, binding>>
       ELSE /\ socket' = FALSE
            /\ IF popen_ok
                 THEN /\ spawned < MaxSpawns
                      /\ spawned' = spawned + 1
                      /\ binding' = binding + 1
                      /\ epc' = [epc EXCEPT ![w] = "wait"]
                      /\ UNCHANGED estart
                 ELSE /\ StartReturn(w, "false")
                      /\ UNCHANGED <<spawned, binding>>
  /\ SidecarIdle

\* wait_for_socket: True once a poll finds the socket, False after 2 seconds
\* of polls that did not
WaitForSocket(w, timed_out) ==
  /\ epc[w] = "wait"
  /\ socket \/ timed_out
  /\ StartReturn(w, IF socket THEN "true" ELSE "false")
  /\ UNCHANGED <<socket, start_lock, spawned, binding>>
  /\ SidecarIdle

\* a spawned sidecar process creates its socket
SidecarBind ==
  /\ binding > 0
  /\ binding' = binding - 1
  /\ socket' = TRUE
  /\ UNCHANGED <<epc, start_lock, spawned, estart>>
  /\ SidecarIdle

(* -------------------- SafeQueue, one put at a time --------------------- *)
\* The steps of get() and writeback_batch([item]) of a worker whose sends
\* all fail, at the grain of the single queue operations and lock sections.
QueueIdle ==
  UNCHANGED <<submitted, accepted, hvars, echopost_disabled, dvars, svars,
              histvars, lvars, fvars, rvars, pvars, evars, mvars>>

\* a written back item is put into the ring: it waits no longer
Entered(e) ==
  /\ waiting' = waiting \ {e}
  /\ returned' = returned \ {e}
  /\ before' = [x \in Events |-> before[x] \ {e}]

\* get(): item = self._get(timeout), None (0) when the ring stays empty
QueueGetFirst(w) ==
  /\ wpc[w] = "idle"
  /\ wpc' = [wpc EXCEPT ![w] = "drain"]
  /\ IF ring = <<>>
       THEN UNCHANGED <<ring, witem>>
       ELSE /\ witem' = [witem EXCEPT ![w] = Head(ring)]
            /\ ring' = Tail(ring)
  /\ UNCHANGED <<wb, unfinished, sqvars>>
  /\ QueueIdle

\* _try_drain_writeback that keeps self._lock while it puts the items of buf
QueueDrainTake_HoldLock(w) ==
  /\ wpc[w] = "drain"
  /\ qlock = 0
  /\ IF wb = <<>>
       THEN /\ wpc' = [wpc EXCEPT ![w] = "drained"]
            /\ UNCHANGED <<wb, qbuf, qlock>>
       ELSE /\ wpc' = [wpc EXCEPT ![w] = "put"]
            /\ qbuf' = [qbuf EXCEPT ![w] = wb]
            /\ wb' = <<>>
            /\ qlock' = w
  /\ UNCHANGED <<ring, unfinished, witem, waiting, returned, before>>
  /\ QueueIdle

\* _try_drain_writeback, with self._lock: return if the buffer is empty,
\* else buf = self._writeback_buffer; self._writeback_buffer = []
QueueDrainTake(w) ==
  /\ wpc[w] = "drain"
  /\ qlock = 0
  /\ IF wb = <<>>
       THEN /\ wpc' = [wpc EXCEPT ![w] = "drained"]
            /\ UNCHANGED <<wb, qbuf>>
       ELSE /\ wpc' = [wpc EXCEPT ![w] = "put"]
            /\ qbuf' = [qbuf EXCEPT ![w] = wb]
            /\ wb' = <<>>
  /\ UNCHANGED <<ring, unfinished, witem, qlock, waiting, returned, before>>
  /\ QueueIdle

\* _try_drain_writeback: one turn of "for item in buf": put_nowait, or on
\* Full append that item to the buffer (under the lock) and break
QueueDrainPut(w) ==
  /\ wpc[w] = "put"
  /\ IF Len(ring) < QueueSize
       THEN /\ ring' = Append(ring, Head(qbuf[w]))
            /\ unfinished' = unfinished + 1
            /\ Requeues + 1 <= MaxRequeues
            /\ Entered(Head(qbuf[w]))
            /\ qbuf' = [qbuf EXCEPT ![w] = Tail(@)]
            /\ wpc' = [wpc EXCEPT ![w] =
                         IF Tail(qbuf[w]) = <<>> THEN "drained" ELSE "put"]
            /\ UNCHANGED wb
       ELSE /\ qlock = 0
            /\ wb' = Append(wb, Head(qbuf[w]))
            /\ qbuf' = [qbuf EXCEPT ![w] = <<>>]
            /\ wpc' = [wpc EXCEPT ![w] = "drained"]
            /\ UNCHANGED <<ring, unfinished, waiting, returned, before>>
  /\ UNCHANGED <<witem, qlock>>
  /\ QueueIdle

\* get(): return item, or self._get(timeout) again when it was None; the
\* worker loops when that is None too
QueueGetSecond(w) ==
  /\ wpc[w] = "drained"
  /\ IF witem[w] # 0
       THEN /\ wpc' = [wpc EXCEPT ![w] = "got"]
            /\ UNCHANGED <<ring, witem>>
       ELSE IF ring = <<>>
         THEN /\ wpc' = [wpc EXCEPT ![w] = "idle"]
              /\ UNCHANGED <<ring, witem>>
         ELSE /\ wpc' = [wpc EXCEPT ![w] = "got"]
              /\ witem' = [witem EXCEPT ![w] = Head(ring)]
              /\ ring' = Tail(ring)
  /\ UNCHANGED <<wb, unfinished, sqvars>>
  /\ QueueIdle

\* writeback_batch([item]) is called and takes the lock: buffer_copy =
\* self._writeback_buffer.copy(); self._writeback_buffer.clear()
QueueWritebackBegin(w) ==
  /\ wpc[w] = "got"
  /\ qlock = 0
  /\ waiting' = waiting \cup {witem[w]}
  /\ before' = [before EXCEPT ![witem[w]] = returned]
  /\ IF wb = <<>>
       THEN /\ wpc' = [wpc EXCEPT ![w] = "new"]
            /\ UNCHANGED <<wb, qbuf, qlock>>
       ELSE /\ wpc' = [wpc EXCEPT ![w] = "reinject"]
            /\ qbuf' = [qbuf EXCEPT ![w] = wb]
            /\ wb' = <<>>
            /\ qlock' = w
  /\ UNCHANGED <<ring, unfinished, witem, returned>>
  /\ QueueIdle

\* writeback_batch, under the lock: one turn of "for item in buffer_copy":
\* put_nowait, or on Full append that item to the buffer and break
QueueWritebackReinject(w) ==
  /\ wpc[w] = "reinject"
  /\ IF Len(ring) < QueueSize
       THEN /\ ring' = Append(ring, Head(qbuf[w]))
            /\ unfinished' = unfinished + 1
            /\ Requeues + 1 <= MaxRequeues
            /\ Entered(Head(qbuf[w]))
            /\ qbuf' = [qbuf EXCEPT ![w] = Tail(@)]
            /\ wpc' = [wpc EXCEPT ![w] =
                         IF Tail(qbuf[w]) = <<>> THEN "new" ELSE "reinject"]
            /\ qlock' = IF Tail(qbuf[w]) = <<>> THEN 0 ELSE w
            /\ UNCHANGED wb
       ELSE /\ wb' = Append(wb, Head(qbuf[w]))
            /\ qbuf' = [qbuf EXCEPT ![w] = <<>>]
            /\ wpc' = [wpc EXCEPT ![w] = "new"]
            /\ qlock' = 0
            /\ UNCHANGED <<ring, unfinished, waiting, returned, before>>
  /\ UNCHANGED witem
  /\ QueueIdle

\* writeback_batch: "for item in items" with the one new item: put_nowait,
\* or on Full append it to the buffer under the lock; then return written
QueueWritebackNew(w) ==
  /\ wpc[w] = "new"
  /\ IF Len(ring) < QueueSize
       THEN /\ ring' = Append(ring, witem[w])
            /\ unfinished' = unfinished + 1
            /\ Requeues + 1 <= MaxRequeues
            /\ Entered(witem[w])
            /\ UNCHANGED wb
       ELSE /\ qlock = 0
            /\ wb' = Append(wb, witem[w])
            /\ returned' = returned \cup {witem[w]}
            /\ UNCHANGED <<ring, unfinished, waiting, before>>
  /\ wpc' = [wpc EXCEPT ![w] = "idle"]
  /\ witem' = [witem EXCEPT ![w] = 0]
  /\ UNCHANGED <<qbuf, qlock>>
  /\ QueueIdle

(* ------------------------- flush and waiting --------------------------- *)
\* flush(), up to thread.start(): nothing to do when _shutdown is set,
\* otherwise a wait_for_queue thread is started
FlushBegin(c) ==
  /\ lpc = "ready"
  /\ fpc[c] = "idle"
  /\ IF shutdown
       THEN /\ fpc' = [fpc EXCEPT ![c] = "done"]
            /\ UNCHANGED helpers
       ELSE /\ fpc' = [fpc EXCEPT ![c] = "waiting"]
            /\ helpers' = helpers + 1
  /\ UNCHANGED <<submitted, accepted, qvars, wvars, hvars, echopost_disabled,
                 dvars, svars, histvars, lvars, rvars, pvars, sqvars, evars, mvars, shutdown,
                 pushed>>

\* flush(): thread.join(timeout=self.exit_timeout) returns (queue.join() is
\* over or the timeout has passed), then self._shutdown.set()
FlushEnd(c) ==
  /\ fpc[c] = "waiting"
  /\ fpc' = [fpc EXCEPT ![c] = "done"]
  /\ shutdown' = TRUE
  /\ UNCHANGED <<submitted, accepted, qvars, wvars, hvars, echopost_disabled,
                 dvars, svars, histvars, lvars, rvars, pvars, sqvars, evars, mvars, helpers,
                 pushed>>

\* Logger.wait_till_logs_pushed: _wait_till_drain_complete finds
\* queue.empty() and returns
WaitTillLogsPushed ==
  /\ lpc = "ready"
  /\ ~pushed
  /\ ring = <<>>
  /\ wb = <<>>
  /\ pushed' = TRUE
  /\ UNCHANGED <<submitted, accepted, qvars, wvars, hvars, echopost_disabled,
                 dvars, svars, histvars, lvars, rvars, pvars, sqvars, evars, mvars, shutdown,
                 fpc, helpers>>

(* ---------------------------- drain thread ----------------------------- *)
\* _drain_loop: what follows a batch that came back empty: time.sleep(0.1)
EmptyBatch == "sleep"

\* _drain_loop: the while test, _wait_for_healthy_server (reachable: whether
\* the fallback answered a probe within the wait) and get_batch(100); on an
\* empty batch the thread sleeps 100 ms and goes on with the loop
DrainTake(reachable) ==
  LET b == GetBatch(ring, DrainBatch)
  IN  /\ drain_thread = "loop"
      /\ IF FillAbove(ring, wb, StopPct) /\ reachable
           THEN IF b.items = <<>>
                  THEN /\ drain_thread' = EmptyBatch
                       /\ UNCHANGED <<ring, dbatch>>
                  ELSE /\ dbatch' = b.items
                       /\ ring' = b.ring
                       /\ drain_thread' = "send"
           ELSE /\ drain_thread' = "finally"
                /\ UNCHANGED <<ring, dbatch>>
      /\ UNCHANGED <<lifevars, submitted, accepted, wb, unfinished, wvars, hvars,
                     echopost_disabled, is_running, drain_orphans, svars,
                     histvars>>

\* _drain_loop: the sleep after an empty batch is over, continue
DrainSleep ==
  /\ drain_thread = "sleep"
  /\ drain_thread' = "loop"
  /\ UNCHANGED <<lifevars, submitted, accepted, qvars, wvars, hvars,
                 echopost_disabled, is_running, drain_orphans, dbatch, svars,
                 histvars>>

\* _drain_loop that tests is_failure as the workers do: a result with no
\* flag set is neither acknowledged, written back nor stored
DrainOutcome_FailureOnly(result) ==
  IF result.success THEN "done"
  ELSE IF result.is_unavailable THEN "writeback"
  ELSE IF result.is_failure THEN "dropped" ELSE "none"

\* _drain_loop: if result["success"] / elif result["is_unavailable"] / else
DrainOutcome(result) ==
  IF result.success THEN "done"
  ELSE IF result.is_unavailable THEN "writeback"
  ELSE "dropped"

\* _drain_loop: send_fn on the batch, the fallback answering with resp
DrainSend(resp) ==
  LET outcome == DrainOutcome(SendResult(resp))
  IN  /\ drain_thread = "send"
      /\ dbatch' = <<>>
      /\ IF resp.kind = "raise"
           THEN /\ drain_thread' = "finally"
                /\ Settle(SameQueue, <<>>, <<>>)
                /\ unavail' = {}
                /\ NoStore
           ELSE /\ drain_thread' = "loop"
                /\ IF outcome = "done"
                     THEN /\ Settle(SameQueue, dbatch, dbatch)
                          /\ unavail' = {}
                          /\ NoStore
                     ELSE IF outcome = "writeback"
                       THEN /\ Settle(WritebackBatch(ring, wb, dbatch), <<>>, <<>>)
                            /\ unavail' = unavail \cup Range(dbatch)
                            /\ NoStore
                     ELSE IF outcome = "dropped"
                       THEN /\ StoreDropped(dbatch, "drain_worker_failed")
                            /\ Settle(SameQueue, dbatch, <<>>)
                            /\ unavail' = {}
                       ELSE /\ Settle(SameQueue, <<>>, <<>>)
                            /\ unavail' = {}
                            /\ NoStore
      /\ UNCHANGED <<lifevars, submitted, accepted, wvars, hvars, echopost_disabled,
                     is_running, drain_orphans, pfailed>>

\* _drain_loop, finally: with self._lock: self._is_running = False
DrainFinally ==
  /\ drain_thread = "finally"
  /\ is_running' = FALSE
  /\ drain_thread' = "tail"
  /\ UNCHANGED <<lifevars, submitted, accepted, qvars, wvars, hvars, echopost_disabled,
                 drain_orphans, dbatch, svars, histvars>>

\* the drain thread logs "Drain worker stopped" and returns
DrainExit ==
  /\ drain_thread = "tail"
  /\ drain_thread' = "dead"
  /\ UNCHANGED <<lifevars, submitted, accepted, qvars, wvars, hvars, echopost_disabled,
                 is_running, drain_orphans, dbatch, svars, histvars>>

\* a replaced drain thread, still in its last lines, returns
DrainOrphanExit ==
  /\ drain_orphans > 0
  /\ drain_orphans' = drain_orphans - 1
  /\ UNCHANGED <<lifevars, submitted, accepted, qvars, wvars, hvars, echopost_disabled,
                 is_running, drain_thread, dbatch, svars, histvars>>

(* ------------------------- processor registry ------------------------- *)
\* the working directory of the process
Cwd == <<"/", "w">>

\* datanadhi_dir arguments: relative, absolute, and with a ".." segment
Paths ==
  {<<"a">>, <<"/", "w", "a">>, <<"b">>, <<"b", "..", "a">>}

\* Path.absolute(): a relative path is joined to the working directory;
\* nothing is normalised, ".." segments stay
Absolute(path) == IF path[1] = "/" THEN path ELSE Cwd \o path

\* the directory a path names: ".." segments followed
RECURSIVE Follow(_, _)
Follow(path, dir) ==
  IF path = <<>> THEN dir
  ELSE IF Head(path) = ".."
    THEN Follow(Tail(path), IF Len(dir) > 1 THEN Take(dir, Len(dir) - 1) ELSE dir)
    ELSE Follow(Tail(path), Append(dir, Head(path)))

Directory(path) == Follow(Tail(Absolute(path)), <<"/">>)

\* key = str(datanadhi_dir.absolute())
RegistryKey(path) == Absolute(path)

RegistryKeys == {RegistryKey(path) : path \in Paths}

RegistryIdle ==
  UNCHANGED <<submitted, accepted, qvars, wvars, hvars, echopost_disabled,
              dvars, svars, histvars, lvars, fvars, pvars, sqvars, evars, mvars>>

\* get_processor_for_directory without the test under the lock
RegistryLocked_NoRecheck(c) ==
  /\ rpc[c] = "lock"
  /\ registry_lock = 0
  /\ registry_lock' = c
  /\ rpc' = [rpc EXCEPT ![c] = "construct"]
  /\ UNCHANGED <<processors, rpath, rnew, rres, built>>
  /\ RegistryIdle

\* with _LOCK: if key not in _PROCESSORS
RegistryLocked(c) ==
  /\ rpc[c] = "lock"
  /\ registry_lock = 0
  /\ registry_lock' = c
  /\ rpc' = [rpc EXCEPT ![c] = IF processors[RegistryKey(rpath[c])] = 0
                                 THEN "construct" ELSE "return"]
  /\ UNCHANGED <<processors, rpath, rnew, rres, built>>
  /\ RegistryIdle

\* get_processor_for_directory(path): the key and the test outside the lock
RegistryCall(c, path) ==
  /\ rpc[c] = "idle"
  /\ rpath' = [rpath EXCEPT ![c] = path]
  /\ IF processors[RegistryKey(path)] # 0
       THEN /\ rres' = [rres EXCEPT ![c] = processors[RegistryKey(path)]]
            /\ rpc' = [rpc EXCEPT ![c] = "done"]
       ELSE /\ rpc' = [rpc EXCEPT ![c] = "lock"]
            /\ UNCHANGED rres
  /\ UNCHANGED <<processors, registry_lock, rnew, built>>
  /\ RegistryIdle

\* AsyncProcessor(datanadhi_dir, config, logger) returns a new instance
RegistryConstruct(c) ==
  /\ rpc[c] = "construct"
  /\ built' = built + 1
  /\ rnew' = [rnew EXCEPT ![c] = built + 1]
  /\ rpc' = [rpc EXCEPT ![c] = "store"]
  /\ UNCHANGED <<processors, registry_lock, rpath, rres>>
  /\ RegistryIdle

\* _PROCESSORS[key] = <the new instance>
RegistryStore(c) ==
  /\ rpc[c] = "store"
  /\ processors' = [processors EXCEPT ![RegistryKey(rpath[c])] = rnew[c]]
  /\ rpc' = [rpc EXCEPT ![c] = "return"]
  /\ UNCHANGED <<registry_lock, rpath, rnew, rres, built>>
  /\ RegistryIdle

\* return _PROCESSORS[key], leaving the with block
RegistryReturn(c) ==
  /\ rpc[c] = "return"
  /\ rres' = [rres EXCEPT ![c] = processors[RegistryKey(rpath[c])]]
  /\ registry_lock' = 0
  /\ rpc' = [rpc EXCEPT ![c] = "done"]
  /\ UNCHANGED <<processors, rpath, rnew, built>>
  /\ RegistryIdle

\* the caller goes on to its next call
RegistryAgain(c) ==
  /\ rpc[c] = "done"
  /\ rpc' = [rpc EXCEPT ![c] = "idle"]
  /\ rres' = [rres EXCEPT ![c] = 0]
  /\ UNCHANGED <<processors, registry_lock, rpath, rnew, built>>
  /\ RegistryIdle

(* ---------------------------- pure functions --------------------------- *)
\* primary.send / fallback.send called on the response drawn
SinkSend ==
  /\ ~send_result.returned
  /\ send_result' =
       [success |-> SendResult(response).success,
        is_failure |-> SendResult(response).is_failure,
        is_unavailable |-> SendResult(response).is_unavailable,
        returned |-> TRUE]
  /\ UNCHANGED <<submitted, accepted, qvars, wvars, hvars, echopost_disabled,
                 dvars, svars, histvars, lvars, fvars, rvars, sqvars, evars, mvars, response,
                 log_dict, condition, match_result, rule_actions, rule_result,
                 raw_rules, compiled>>

(* ----------------------------- rule engine ----------------------------- *)
\* Python values of a payload; text is a sequence of characters, s is the
\* text of a str and the decimal text of an int, d the mapping of a dict
VNone == [t |-> "none", s |-> <<>>, d |-> <<>>]

VStr(text) == [t |-> "str", s |-> text, d |-> <<>>]

VInt(text) == [t |-> "int", s |-> text, d |-> <<>>]

VDict(mapping) == [t |-> "dict", s |-> <<>>, d |-> mapping]

\* repr(value), for dicts of at most one key
RECURSIVE Repr(_)
Repr(value) ==
  IF value.t = "none" THEN <<"N", "o", "n", "e">>
  ELSE IF value.t = "str" THEN <<"'">> \o value.s \o <<"'">>
  ELSE IF value.t = "int" THEN value.s
  ELSE IF DOMAIN value.d = {} THEN <<"{", "}">>
  ELSE LET k == CHOOSE key \in DOMAIN value.d : TRUE
       IN  <<"{", "'">> \o k \o <<"'", ":", " ">> \o Repr(value.d[k]) \o <<"}">>

\* str(value)
StrOf(value) == IF value.t = "str" THEN value.s ELSE Repr(value)

\* key_path.split(".")
RECURSIVE SplitDots(_, _)
SplitDots(chars, cur) ==
  IF chars = <<>> THEN <<cur>>
  ELSE IF Head(chars) = "." THEN <<cur>> \o SplitDots(Tail(chars), <<>>)
  ELSE SplitDots(Tail(chars), Append(cur, Head(chars)))

\* the loop of get_nested_value: val.get(k) if val is a dict, else None;
\* stop at None
RECURSIVE Walk(_, _)
Walk(val, keys) ==
  IF keys = <<>> THEN val
  ELSE LET next == IF val.t = "dict" /\ Head(keys) \in DOMAIN val.d
                     THEN val.d[Head(keys)] ELSE VNone
       IN  IF next = VNone THEN VNone ELSE Walk(next, Tail(keys))

\* get_nested_value(data, key_path)
GetNestedValue(data, key_path) == Walk(data, SplitDots(key_path, <<>>))

\* cond_val in str(value)
Contains(sub, text) ==
  \E i \in 0..(Len(text) - Len(sub)) : SubSeq(text, i + 1, i + Len(sub)) = sub

\* re.compile fails on the pattern (an unclosed parenthesis)
InvalidPattern(pattern) == "(" \in Range(pattern)

\* bool(re.match(pattern, text)) for patterns of literals and "."
ReMatch(pattern, text) ==
  /\ Len(pattern) <= Len(text)
  /\ \A i \in 1..Len(pattern) : pattern[i] = "." \/ pattern[i] = text[i]

\* match_condition(value, condition): raised tells that re.match raised
MatchCondition(value, cond) ==
  IF value = VNone THEN [raised |-> FALSE, match |-> FALSE]
  ELSE IF cond.type = "regex" /\ InvalidPattern(cond.value)
    THEN [raised |-> TRUE, match |-> FALSE]
    ELSE LET result ==
               IF cond.type = "exact" THEN value = VStr(cond.value)
               ELSE IF cond.type = "partial"
                 THEN Contains(cond.value, StrOf(value))
                 ELSE ReMatch(cond.value, StrOf(value))
         IN  [raised |-> FALSE,
              match |-> IF cond.negate THEN ~result ELSE result]

\* lines 92-93 of evaluate_rules for one condition
ConditionOutcome(data, cond) ==
  MatchCondition(GetNestedValue(data, cond.key), cond)

\* the loop over rule.conditions with an empty any-match clause matching
RECURSIVE ConditionsMatch_EmptyAny(_, _, _)
ConditionsMatch_EmptyAny(data, conds, any) ==
  IF conds = <<>> THEN "true"
  ELSE LET o == ConditionOutcome(data, Head(conds))
       IN  IF o.raised THEN "raise"
           ELSE IF o.match /\ any THEN "true"
           ELSE IF ~(o.match \/ any) THEN "false"
           ELSE ConditionsMatch_EmptyAny(data, Tail(conds), any)

\* the loop over rule.conditions: conditions_match starts as not any;
\* "true", "false", or "raise" when a condition raised
RECURSIVE ConditionsMatch(_, _, _)
ConditionsMatch(data, conds, any) ==
  IF conds = <<>> THEN (IF any THEN "false" ELSE "true")
  ELSE LET o == ConditionOutcome(data, Head(conds))
       IN  IF o.raised THEN "raise"
           ELSE IF o.match /\ any THEN "true"
           ELSE IF ~(o.match \/ any) THEN "false"
           ELSE ConditionsMatch(data, Tail(conds), any)

\* the loop over the rules of one action; acc is (raised, pipelines, stdout)
RECURSIVE EvaluateGroup(_, _, _, _)
EvaluateGroup(data, action, rules, acc) ==
  IF rules = <<>> \/ acc.raised THEN acc
  ELSE LET m == ConditionsMatch(data, Head(rules).conditions,
                                Head(rules).any_condition_match)
       IN  IF m = "raise"
             THEN [acc EXCEPT !.raised = TRUE]
             ELSE EvaluateGroup(data, action, Tail(rules),
                    IF m = "true"
                      THEN [raised |-> FALSE,
                            pipelines |-> acc.pipelines \cup action.pipelines,
                            stdout |-> acc.stdout \/ action.stdout]
                      ELSE acc)

\* the loop over rule_actions
RECURSIVE EvaluateGroups(_, _, _)
EvaluateGroups(data, table, acc) ==
  IF table = <<>> \/ acc.raised THEN acc
  ELSE EvaluateGroups(data, Tail(table),
         EvaluateGroup(data, Head(table).action, Head(table).rules, acc))

\* list(pipelines_to_trigger): the elements of the set in some order
ListOf(S) ==
  CHOOSE q \in [1..Cardinality(S) -> S] : \A e \in S : \E i \in DOMAIN q : q[i] = e

\* evaluate_rules whose except branch returns what had been collected
EvaluateRules_KeepPartial(data, table) ==
  LET acc == EvaluateGroups(data, table,
               [raised |-> FALSE, pipelines |-> {}, stdout |-> FALSE])
  IN  [pipelines |-> ListOf(acc.pipelines), stdout |-> acc.stdout,
       error |-> acc.raised]

\* evaluate_rules(log_dict, rule_actions); error tells that the except
\* branch ran
EvaluateRules(data, table) ==
  LET acc == EvaluateGroups(data, table,
               [raised |-> FALSE, pipelines |-> {}, stdout |-> FALSE])
  IN  IF acc.raised
        THEN [pipelines |-> <<>>, stdout |-> FALSE, error |-> TRUE]
        ELSE [pipelines |-> ListOf(acc.pipelines), stdout |-> acc.stdout,
              error |-> FALSE]

\* payloads: a key present, absent, nested, None, an int
MatchPayloads ==
  {VDict(<<>>),
   VDict(<<"a">> :> VStr(<<"x">>)),
   VDict(<<"a">> :> VNone),
   VDict(<<"a">> :> VInt(<<"1">>)),
   VDict(<<"a">> :> VDict(<<"b">> :> VStr(<<"x", "y">>))),
   VDict(<<"a">> :> VDict(<<"b">> :> VStr(<<"x">>)) @@ <<"c">> :> VStr(<<"x">>))}

ConditionTypes == {"exact", "partial", "regex"}

\* Condition(key, type, negate, value)
Conditions ==
  [key : {<<"a">>, <<"a", ".", "b">>, <<"c">>},
   type : ConditionTypes,
   negate : BOOLEAN,
   value : {<<>>, <<"x">>, <<"x", "y">>, <<".">>, <<"(">>, <<"1">>}]

NoCondition ==
  [key |-> <<>>, type |-> "exact", negate |-> FALSE, value |-> <<>>]

NoMatchResult == [raised |-> FALSE, match |-> FALSE, returned |-> FALSE]

NoRuleResult ==
  [pipelines |-> <<>>, stdout |-> FALSE, error |-> FALSE, returned |-> FALSE]

\* the conditions the rule tables are built from
TableConditions ==
  {[key |-> <<"a">>, type |-> "exact", negate |-> FALSE, value |-> <<"x">>],
   [key |-> <<"a", ".", "b">>, type |-> "partial", negate |-> TRUE,
    value |-> <<"y">>],
   [key |-> <<"a">>, type |-> "regex", negate |-> FALSE, value |-> <<"(">>]}

\* the merged "or" conditions: at most MaxConditions conditions
ConditionLists ==
  UNION {[1..n -> TableConditions] : n \in 0..MaxConditions}

\* the conditions of an all-match rule: more than one (a rule of a single
\* condition is made any-match)
AllConditionLists == [1..(MaxConditions + 1) -> TableConditions]

\* Action(stdout, pipelines)
Actions ==
  {[stdout |-> TRUE, pipelines |-> {"p1"}],
   [stdout |-> FALSE, pipelines |-> {"p1", "p2"}]}

\* a group as action_rule_to_json writes it: the any-match rule of the
\* merged "or" conditions, then the all-match rules
Groups ==
  {[action |-> a,
    rules |-> <<[any_condition_match |-> TRUE, conditions |-> anyc]>> \o allr] :
     a \in Actions, anyc \in ConditionLists,
     allr \in {<<>>} \cup
              {<<[any_condition_match |-> FALSE, conditions |-> c]>> :
                 c \in AllConditionLists}}

\* RuleActions of at most MaxGroups groups
Tables == UNION {[1..n -> Groups] : n \in 0..MaxGroups}

RulePayloads ==
  {VDict(<<>>),
   VDict(<<"a">> :> VStr(<<"x">>)),
   VDict(<<"a">> :> VDict(<<"b">> :> VStr(<<"x">>)) @@ <<"c">> :> VStr(<<"x">>))}

PureIdle ==
  UNCHANGED <<submitted, accepted, qvars, wvars, hvars, echopost_disabled,
              dvars, svars, histvars, lvars, fvars, rvars, sqvars, evars, mvars>>

\* match_condition(get_nested_value(log_dict, condition.key), condition)
MatchStep ==
  /\ ~match_result.returned
  /\ LET o == ConditionOutcome(log_dict, condition)
     IN  match_result' =
           [raised |-> o.raised, match |-> o.match, returned |-> TRUE]
  /\ UNCHANGED <<response, send_result, log_dict, condition, rule_actions,
                 rule_result, raw_rules, compiled>>
  /\ PureIdle

\* evaluate_rules(log_dict, rule_actions)
EvaluateStep ==
  /\ ~rule_result.returned
  /\ LET r == EvaluateRules(log_dict, rule_actions)
     IN  rule_result' =
           [pipelines |-> r.pipelines, stdout |-> r.stdout, error |-> r.error,
            returned |-> TRUE]
  /\ UNCHANGED <<response, send_result, log_dict, condition, match_result,
                 rule_actions, raw_rules, compiled>>
  /\ PureIdle

(* ---------------------------- rule compiler ---------------------------- *)
\* every list of the elements of S, each once: the orders in which a Python
\* set can be iterated
Orders(S) ==
  {q \in [1..Cardinality(S) -> S] : \A e \in S : \E i \in DOMAIN q : q[i] = e}

\* remove_none_or_defaults: a rule of one condition becomes any-match (False
\* and None, () and None are not told apart here)
RemoveNoneOrDefaults(rule) ==
  [rule EXCEPT !.any_condition_match = @ \/ Len(rule.conditions) = 1]

\* get_structured_rule keeps the rule: it has an action and a condition
Structured(rule) ==
  /\ rule.stdout \/ rule.pipelines # <<>>
  /\ Len(rule.conditions) # 0

\* get_rules_from_file: the rules that are kept, in file order
RECURSIVE StructuredRules(_)
StructuredRules(raw) ==
  IF raw = <<>> THEN <<>>
  ELSE (IF Structured(Head(raw))
          THEN <<RemoveNoneOrDefaults(Head(raw))>> ELSE <<>>)
         \o StructuredRules(Tail(raw))

\* RawAction(stdout=rule.stdout, pipelines=rule.pipelines)
RawActionOf(rule) == [stdout |-> rule.stdout, pipelines |-> rule.pipelines]

\* the keys of self.rules in insertion order
RECURSIVE ActionsInOrder(_, _)
ActionsInOrder(rules, seen) ==
  IF rules = <<>> THEN seen
  ELSE ActionsInOrder(Tail(rules),
         IF RawActionOf(Head(rules)) \in Range(seen)
           THEN seen ELSE Append(seen, RawActionOf(Head(rules))))

\* add_rule that puts the conditions of every rule into the "or" set
OrConditions_All(rules, action) ==
  UNION {Range(rules[i].conditions) :
           i \in {j \in DOMAIN rules : RawActionOf(rules[j]) = action}}

\* add_rule: self.rules[action]["or"] after every rule was added
OrConditions(rules, action) ==
  UNION {Range(rules[i].conditions) :
           i \in {j \in DOMAIN rules :
                    /\ RawActionOf(rules[j]) = action
                    /\ rules[j].any_condition_match}}

\* add_rule: self.rules[action]["other"], a set of frozensets
OtherConditions(rules, action) ==
  {Range(rules[i].conditions) :
     i \in {j \in DOMAIN rules :
              /\ RawActionOf(rules[j]) = action
              /\ ~rules[j].any_condition_match}}

\* the all-match rules action_rule_to_json can write for the frozensets SS
OtherRules(SS) ==
  UNION {{[i \in DOMAIN q |->
             [any_condition_match |-> FALSE, conditions |-> c[i]]] :
            c \in {d \in [DOMAIN q -> UNION {Orders(s) : s \in SS}] :
                     \A i \in DOMAIN q : d[i] \in Orders(q[i])}} :
         q \in Orders(SS)}

\* action_rule_to_json for one action, read back as a RuleAction: the
\* any-match rule of the "or" set, then the all-match rules
GroupsOf(rules, action) ==
  {[action |-> [stdout |-> action.stdout, pipelines |-> Range(action.pipelines)],
    rules |-> <<[any_condition_match |-> TRUE, conditions |-> anyc]>> \o allr] :
     anyc \in Orders(OrConditions(rules, action)),
     allr \in OtherRules(OtherConditions(rules, action))}

\* build_rules_from_files and RuleActions(...): the tables the raw rules can
\* be compiled to
CompiledTables(raw) ==
  LET rules == StructuredRules(raw)
      acts == ActionsInOrder(rules, <<>>)
  IN  {t \in [DOMAIN acts -> UNION {GroupsOf(rules, acts[i]) : i \in DOMAIN acts}] :
         \A i \in DOMAIN acts : t[i] \in GroupsOf(rules, acts[i])}

\* conditions of the raw rules: one on key a, a negated one on key c, and a
\* regular expression that does not compile
CondA == [key |-> <<"a">>, type |-> "exact", negate |-> FALSE, value |-> <<"x">>]

CondNotC ==
  [key |-> <<"c">>, type |-> "partial", negate |-> TRUE, value |-> <<"x">>]

CondBad == [key |-> <<"a">>, type |-> "regex", negate |-> FALSE, value |-> <<"(">>]

\* RawRule.conditions: none, one or two conditions
RawConditionLists ==
  {<<>>, <<CondA>>, <<CondNotC>>, <<CondBad>>, <<CondA, CondNotC>>,
   <<CondA, CondBad>>, <<CondBad, CondA>>}

\* RawRule(any_condition_match, conditions, stdout, pipelines)
RawRules ==
  {[any_condition_match |-> any, conditions |-> conds,
    stdout |-> act[1], pipelines |-> act[2]] :
     any \in BOOLEAN, conds \in RawConditionLists,
     act \in {<<FALSE, <<>>>>, <<TRUE, <<>>>>, <<FALSE, <<"p1">>>>}}

RawRuleLists == UNION {[1..n -> RawRules] : n \in 0..MaxRawRules}

CompilePayloads ==
  {VDict(<<"a">> :> VStr(<<"x">>)),
   VDict(<<"a">> :> VStr(<<"x">>) @@ <<"c">> :> VStr(<<"y">>)),
   VDict(<<"c">> :> VStr(<<"x">>))}

\* ResolvedRules.get(): build_rules_from_files compiles the raw rules
CompileStep ==
  /\ ~compiled
  /\ compiled' = TRUE
  /\ rule_actions' \in CompiledTables(raw_rules)
  /\ UNCHANGED <<response, send_result, log_dict, condition, match_result,
                 rule_result, raw_rules>>
  /\ PureIdle

(* ------------------------- Logger construction ------------------------ *)
\* what ensure_binary_exists can meet when the binary has to be looked for
DownloadOutcomes ==
  {"exists", "downloaded", "unsupported", "http_error", "network_error",
   "unknown_error"}

ProcessorVars ==
  <<submitted, accepted, qvars, wvars, hvars, echopost_disabled, dvars, svars,
    histvars, fvars, rvars, pvars, sqvars, evars, mvars>>

\* Logger.__init__: self.config = ResolvedConfig(...).get(); configured is
\* the echopost_disable of the configuration file or of the override
LoggerResolveConfig(configured) ==
  /\ lpc = "new"
  /\ lpc' = "resolved"
  /\ cfg_echopost_disable' = (force_disable_echopost \/ configured)
  /\ UNCHANGED <<force_disable_echopost, download, ProcessorVars>>

\* Logger._initialise_rules_and_echopost with rules present:
\* ensure_binary_exists(self.datanadhi_dir, self.config)
LoggerEnsureBinary(outcome) ==
  /\ lpc = "resolved"
  /\ lpc' = "ensured"
  /\ IF cfg_echopost_disable
       THEN /\ download' = "disabled"
            /\ UNCHANGED force_disable_echopost
       ELSE /\ download' = outcome
            /\ force_disable_echopost' =
                 (force_disable_echopost
                    \/ outcome \in {"network_error", "unknown_error"})
  /\ UNCHANGED <<cfg_echopost_disable, ProcessorVars>>

\* Logger._initialise_processor: get_processor_for_directory(dir, config),
\* AsyncProcessor.__init__ reading config["echopost_disable"]
LoggerInitialiseProcessor ==
  /\ lpc = "ensured"
  /\ lpc' = "ready"
  /\ echopost_disabled' = cfg_echopost_disable
  /\ UNCHANGED <<submitted, accepted, qvars, wvars, hvars, dvars, svars,
                 histvars, fvars, rvars, pvars, sqvars, evars, mvars, force_disable_echopost,
                 cfg_echopost_disable, download>>

(* ---------------------------- specification ---------------------------- *)
\* the queue, the threads and the store of a processor just constructed
InitProcessor ==
  /\ submitted = 0
  /\ accepted = {}
  /\ ring = <<>>
  /\ wb = <<>>
  /\ unfinished = 0
  /\ wpc = [w \in Workers |-> "idle"]
  /\ witem = [w \in Workers |-> 0]
  /\ is_healthy = [k \in Keys |-> TRUE]
  /\ probe_thread = [k \in Keys |-> "dead"]
  /\ probe_orphans = [k \in Keys |-> 0]
  /\ is_running = FALSE
  /\ drain_thread = "dead"
  /\ drain_orphans = 0
  /\ dbatch = <<>>
  /\ files = [f \in Reasons \X Times |-> <<>>]
  /\ now = 0
  /\ delivered = [e \in Events |-> 0]
  /\ done = [e \in Events |-> 0]
  /\ dropWrites = [e \in Events |-> 0]
  /\ unavail = {}
  /\ pfailed = {}
  /\ shutdown = FALSE
  /\ fpc = [c \in FlushCallers |-> "idle"]
  /\ helpers = 0
  /\ pushed = FALSE
  /\ processors = [k \in RegistryKeys |-> 0]
  /\ registry_lock = 0
  /\ rpc = [c \in RegistryCallers |-> "idle"]
  /\ rpath = [c \in RegistryCallers |-> <<"a">>]
  /\ rnew = [c \in RegistryCallers |-> 0]
  /\ rres = [c \in RegistryCallers |-> 0]
  /\ built = 0
  /\ qbuf = [w \in Workers |-> <<>>]
  /\ qlock = 0
  /\ waiting = {}
  /\ returned = {}
  /\ before = [e \in Events |-> {}]
  /\ epc = [w \in Workers |-> "idle"]
  /\ socket = FALSE
  /\ start_lock = 0
  /\ spawned = 0
  /\ binding = 0
  /\ estart = [w \in Workers |-> "none"]
  /\ hm_is_healthy = <<>>
  /\ hm_check_threads = <<>>
  /\ send_result = NoResult
  /\ match_result = NoMatchResult
  /\ rule_result = NoRuleResult

\* no input of a pure function is drawn
NoSinkInput == response = [kind |-> "none", code |-> 0]

NoRuleInput ==
  /\ log_dict = VNone
  /\ condition = NoCondition
  /\ rule_actions = <<>>
  /\ raw_rules = <<>>
  /\ compiled = FALSE

NoInputs == NoSinkInput /\ NoRuleInput

\* a processor constructed by a Logger that found the sidecar binary
Init ==
  /\ InitProcessor
  /\ NoInputs
  /\ echopost_disabled \in BOOLEAN
  /\ lpc = "ready"
  /\ force_disable_echopost = FALSE
  /\ cfg_echopost_disable = echopost_disabled
  /\ download = IF echopost_disabled THEN "disabled" ELSE "exists"

Next ==
  \/ Submit(MaxEvents)
  \/ \E w \in Workers : WorkerGet(w)
  \/ \E w \in Workers, resp \in Responses : SendToPrimary(w, resp)
  \/ \E w \in Workers, resp \in Responses : SendToFallback(w, resp)
  \/ \E w \in Workers : RequeueFallbackDown(w)
  \/ \E w \in Workers, outcome \in EchopostOutcomes : SendToEchopost(w, outcome)
  \/ \E reachable \in BOOLEAN : DrainTake(reachable)
  \/ \E resp \in Responses : DrainSend(resp)
  \/ DrainSleep
  \/ DrainFinally
  \/ DrainExit
  \/ DrainOrphanExit
  \/ \E k \in Keys : ProbeRecover(k)
  \/ \E k \in Keys : ProbeExit(k)

Spec == Init /\ [][Next]_vars

\* The same processor while every POST to the primary and to the fallback is
\* answered 503 or fails in transport, and the sidecar does not take events.
OutageNext ==
  \/ Submit(OutageEvents)
  \/ \E w \in Workers : WorkerGet(w)
  \/ \E w \in Workers, resp \in OutageResponses : SendToPrimary(w, resp)
  \/ \E w \in Workers, resp \in OutageResponses : SendToFallback(w, resp)
  \/ \E w \in Workers : RequeueFallbackDown(w)
  \/ \E w \in Workers, outcome \in EchopostOutcomes \ {"sent"} :
       SendToEchopost(w, outcome)
  \/ \E reachable \in BOOLEAN : DrainTake(reachable)
  \/ \E resp \in OutageResponses : DrainSend(resp)
  \/ DrainFinally
  \/ DrainExit
  \/ DrainOrphanExit
  \/ \E k \in Keys : ProbeRecover(k)
  \/ \E k \in Keys : ProbeExit(k)

OutageSpec == Init /\ [][OutageNext]_vars

\* The same processor while the primary is down (every POST to it is answered
\* 503 or fails in transport, its probe is not answered) and the fallback is
\* reachable (it answers its probe and every POST).
OverflowNext ==
  \/ Submit(MaxEvents)
  \/ \E w \in Workers : WorkerGet(w)
  \/ \E w \in Workers, resp \in OutageResponses : SendToPrimary(w, resp)
  \/ \E w \in Workers, resp \in ReachableResponses : SendToFallback(w, resp)
  \/ \E w \in Workers, outcome \in EchopostOutcomes : SendToEchopost(w, outcome)
  \/ DrainTake(TRUE)
  \/ \E resp \in ReachableResponses : DrainSend(resp)
  \/ DrainSleep
  \/ DrainFinally
  \/ DrainExit
  \/ DrainOrphanExit

OverflowSpec == Init /\ [][OverflowNext]_vars

\* The process before the Logger is constructed
StartupInit ==
  /\ InitProcessor
  /\ NoInputs
  /\ echopost_disabled = FALSE
  /\ lpc = "new"
  /\ force_disable_echopost = FALSE
  /\ cfg_echopost_disable = FALSE
  /\ download = "none"

\* Logger.__init__, then the processor while the primary is down and the
\* fallback is reachable
StartupNext ==
  \/ \E configured \in BOOLEAN : LoggerResolveConfig(configured)
  \/ \E outcome \in DownloadOutcomes : LoggerEnsureBinary(outcome)
  \/ LoggerInitialiseProcessor
  \/ OverflowNext

StartupSpec == StartupInit /\ [][StartupNext]_vars

\* The processor with both endpoints answering every POST, the application
\* waiting for the queue and flushing
LifecycleNext ==
  \/ Submit(MaxEvents)
  \/ \E w \in Workers : WorkerGet(w)
  \/ \E w \in Workers, resp \in ReachableResponses : SendToPrimary(w, resp)
  \/ \E w \in Workers : WorkerStop(w)
  \/ DrainTake(TRUE)
  \/ \E resp \in ReachableResponses : DrainSend(resp)
  \/ DrainFinally
  \/ DrainExit
  \/ DrainOrphanExit
  \/ \E c \in FlushCallers : FlushBegin(c)
  \/ \E c \in FlushCallers : FlushEnd(c)
  \/ WaitTillLogsPushed

LifecycleSpec == Init /\ [][LifecycleNext]_vars

\* The queue of a processor whose sinks are all unavailable: the application
\* submits, every worker takes an event with get() and writes it back
QueueNext ==
  \/ Submit(OutageEvents)
  \/ \E w \in Workers : QueueGetFirst(w)
  \/ \E w \in Workers : QueueDrainTake(w)
  \/ \E w \in Workers : QueueDrainPut(w)
  \/ \E w \in Workers : QueueGetSecond(w)
  \/ \E w \in Workers : QueueWritebackBegin(w)
  \/ \E w \in Workers : QueueWritebackReinject(w)
  \/ \E w \in Workers : QueueWritebackNew(w)

QueueSpec == Init /\ [][QueueNext]_vars

\* what the sinks answer while the workers' routing is looked at: accepted,
\* or unavailable
RoutingResponses == {r \in Responses : r.kind = "http" /\ r.code \in {200, 503}}

\* The workers and the probe threads alone (the drain thread is not
\* scheduled): every route of _worker_loop, the endpoints going down and up
RoutingNext ==
  \/ Submit(MaxEvents)
  \/ \E w \in Workers : WorkerGet(w)
  \/ \E w \in Workers, resp \in RoutingResponses : SendToPrimary(w, resp)
  \/ \E w \in Workers, resp \in RoutingResponses : SendToFallback(w, resp)
  \/ \E w \in Workers : RequeueFallbackDown(w)
  \/ \E w \in Workers, outcome \in EchopostOutcomes : SendToEchopost(w, outcome)
  \/ \E k \in Keys : ProbeRecover(k)
  \/ \E k \in Keys : ProbeExit(k)

RoutingSpec == Init /\ [][RoutingNext]_vars

\* The processor while the primary is unavailable and the fallback answers
\* in every way (accepts, rejects, is unavailable, the send raises)
FallbackNext ==
  \/ Submit(MaxEvents)
  \/ \E w \in Workers : WorkerGet(w)
  \/ \E w \in Workers, resp \in OutageResponses : SendToPrimary(w, resp)
  \/ \E w \in Workers, resp \in Responses : SendToFallback(w, resp)
  \/ \E w \in Workers : RequeueFallbackDown(w)
  \/ \E w \in Workers, outcome \in EchopostOutcomes \ {"sent"} :
       SendToEchopost(w, outcome)
  \/ \E k \in Keys : ProbeRecover(k)
  \/ \E k \in Keys : ProbeExit(k)

FallbackSpec == Init /\ [][FallbackNext]_vars

\* The module before any processor exists: _PROCESSORS = {}
RegistryInit == StartupInit

\* threads calling get_processor_for_directory
RegistryNext ==
  \/ \E c \in RegistryCallers, path \in Paths : RegistryCall(c, path)
  \/ \E c \in RegistryCallers : RegistryLocked(c)
  \/ \E c \in RegistryCallers : RegistryConstruct(c)
  \/ \E c \in RegistryCallers : RegistryStore(c)
  \/ \E c \in RegistryCallers : RegistryReturn(c)
  \/ \E c \in RegistryCallers : RegistryAgain(c)

RegistrySpec == RegistryInit /\ [][RegistryNext]_vars

\* the process state the pure functions run in (they do not read it)
PureInit ==
  /\ InitProcessor
  /\ echopost_disabled = FALSE
  /\ lpc = "new"
  /\ force_disable_echopost = FALSE
  /\ cfg_echopost_disable = FALSE
  /\ download = "none"

\* a sink adapter's send on any response
SinkInit ==
  /\ PureInit
  /\ NoRuleInput
  /\ response \in SinkResponses

SinkNext == SinkSend

SinkSpec == SinkInit /\ [][SinkNext]_vars

\* match_condition on any condition and payload
MatchInit ==
  /\ PureInit
  /\ NoSinkInput
  /\ log_dict \in MatchPayloads
  /\ condition \in Conditions
  /\ rule_actions = <<>>
  /\ raw_rules = <<>>
  /\ compiled = FALSE

MatchNext == MatchStep

MatchSpec == MatchInit /\ [][MatchNext]_vars

\* evaluate_rules on any table and payload
RuleInit ==
  /\ PureInit
  /\ NoSinkInput
  /\ log_dict \in RulePayloads
  /\ condition = NoCondition
  /\ rule_actions \in Tables
  /\ raw_rules = <<>>
  /\ compiled = FALSE

RuleNext == EvaluateStep

RuleSpec == RuleInit /\ [][RuleNext]_vars

\* raw rules compiled, then the table evaluated on a payload
CompileInit ==
  /\ PureInit
  /\ NoSinkInput
  /\ log_dict \in CompilePayloads
  /\ condition = NoCondition
  /\ rule_actions = <<>>
  /\ raw_rules \in RawRuleLists
  /\ compiled = FALSE

CompileNext ==
  \/ CompileStep
  \/ compiled /\ EvaluateStep

CompileSpec == CompileInit /\ [][CompileNext]_vars

\* an outage of the primary that lasts, with the drain thread meeting every
\* response of the fallback
DrainNext ==
  \/ Submit(MaxEvents)
  \/ \E w \in Workers : WorkerGet(w)
  \/ \E w \in Workers, resp \in OutageResponses : SendToPrimary(w, resp)
  \/ \E w \in Workers, resp \in RoutingResponses : SendToFallback(w, resp)
  \/ \E w \in Workers : RequeueFallbackDown(w)
  \/ \E w \in Workers, outcome \in EchopostOutcomes : SendToEchopost(w, outcome)
  \/ \E reachable \in BOOLEAN : DrainTake(reachable)
  \/ \E resp \in Responses : DrainSend(resp)
  \/ DrainSleep
  \/ DrainFinally
  \/ DrainExit
  \/ DrainOrphanExit

DrainSpec == Init /\ [][DrainNext]_vars

\* one iteration of the loop of worker w, or its end
WorkerStep(w) ==
  \/ WorkerGet(w)
  \/ \E resp \in RoutingResponses : SendToPrimary(w, resp)
  \/ \E resp \in RoutingResponses : SendToFallback(w, resp)
  \/ RequeueFallbackDown(w)
  \/ \E outcome \in EchopostOutcomes : SendToEchopost(w, outcome)
  \/ WorkerStop(w)

\* the workers in every routing state while the application submits and
\* flushes once (atexit); every worker thread is scheduled again and again
ShutdownNext ==
  \/ Submit(ShutdownEvents)
  \/ \E w \in Workers : WorkerStep(w)
  \/ FlushBegin(1)
  \/ FlushEnd(1)

ShutdownSpec ==
  Init /\ [][ShutdownNext]_vars /\ \A w \in Workers : WF_vars(WorkerStep(w))

\* RawRule.stdout and RawRule.pipelines: no action, stdout, one pipeline, and
\* the same two pipelines listed in either order
RawActions ==
  {<<FALSE, <<>>>>, <<TRUE, <<>>>>, <<TRUE, <<"p1">>>>,
   <<FALSE, <<"p1", "p2">>>>, <<FALSE, <<"p2", "p1">>>>}

\* raw rules that differ in their action
ActionRules ==
  {[any_condition_match |-> any, conditions |-> conds,
    stdout |-> act[1], pipelines |-> act[2]] :
     any \in BOOLEAN, conds \in {<<CondA>>, <<CondA, CondNotC>>},
     act \in RawActions}

ActionRuleLists == UNION {[1..n -> ActionRules] : n \in 0..MaxRawRules}

\* rule files whose rules differ in their action
ActionInit ==
  /\ PureInit
  /\ NoSinkInput
  /\ log_dict \in CompilePayloads
  /\ condition = NoCondition
  /\ rule_actions = <<>>
  /\ raw_rules \in ActionRuleLists
  /\ compiled = FALSE

ActionSpec == ActionInit /\ [][CompileNext]_vars

\* the health monitor of one processor, asked about every host as primary
\* and as fallback
HealthNext ==
  \/ \E h \in Hosts, f \in BOOLEAN : MonitorSetHealthDown(h, f)
  \/ \E h \in Hosts, f \in BOOLEAN : MonitorProbeRecover(h, f)
  \/ \E h \in Hosts, f \in BOOLEAN : MonitorProbeExit(h, f)

HealthSpec == Init /\ [][HealthNext]_vars

\* the workers of one processor starting the sidecar of its directory
SidecarNext ==
  \/ \E w \in Workers : StartCheck(w)
  \/ \E w \in Workers : StartAcquire(w)
  \/ \E w \in Workers : StartRecheck(w)
  \/ \E w \in Workers, binary_exists, popen_ok \in BOOLEAN :
       StartEchopostDetached(w, binary_exists, popen_ok)
  \/ \E w \in Workers, timed_out \in BOOLEAN : WaitForSocket(w, timed_out)
  \/ SidecarBind

SidecarSpec == Init /\ [][SidecarNext]_vars


(* ------------------------------- claims -------------------------------- *)
InQueue == Range(ring) \cup Range(wb)

\* the events a worker or the drain thread holds
Held == ({witem[w] : w \in Workers} \ {0}) \cup Range(dbatch)

Pending(e) == e \in InQueue \cup Held

\* e is a record of some file of the dropped store
Recorded(e) == \E f \in DOMAIN files : e \in Range(files[f])

ProbesAlive(k) ==
  (IF ThreadAlive(probe_thread[k]) THEN 1 ELSE 0) + probe_orphans[k]

DrainsAlive == (IF DrainAlive(drain_thread) THEN 1 ELSE 0) + drain_orphans

\* C1: every accepted event is in exactly one of three conditions: still in
\* the system (ring, writeback buffer, or held by a consumer), successfully
\* sent to a sink, or a record of a dropped/*.jsonl file; none vanishes.
C1_SentOrDropped ==
  \A e \in accepted :
    \/ Pending(e) /\ delivered[e] = 0 /\ ~Recorded(e)
    \/ ~Pending(e) /\ delivered[e] >= 1 /\ ~Recorded(e)
    \/ ~Pending(e) /\ delivered[e] = 0 /\ Recorded(e)

\* C2: an event whose send was answered is_unavailable, while no sink has
\* given another answer since, is in the ring or the writeback buffer (or
\* held again for its next attempt); it is not lost and was never written to
\* the dropped store.
C2_UnavailableNeverDropped ==
  \A e \in unavail : Pending(e) /\ dropWrites[e] = 0 /\ ~Recorded(e)

\* C3: task_done is called exactly once for an enqueued event: not at all
\* while the event is in the queue or held by a consumer, and exactly once by
\* the time it has left the system.
C3_TaskDoneOnce ==
  \A e \in accepted : done[e] = (IF Pending(e) THEN 0 ELSE 1)

\* C4: the ring never holds more than async_queue_size items; a submit call
\* returns False exactly when the ring is at capacity, and then it leaves the
\* ring, the writeback buffer, the outstanding counter and the drain worker
\* as they were; otherwise the event is appended to the ring.
C4_RingBounded ==
  /\ [](Len(ring) <= QueueSize)
  /\ [][submitted' # submitted =>
          IF Len(ring) = QueueSize
            THEN /\ submitted' \notin accepted'
                 /\ UNCHANGED <<ring, wb, unfinished>>
                 /\ UNCHANGED <<is_running, drain_thread, drain_orphans>>
            ELSE /\ submitted' \in accepted'
                 /\ ring' = Append(ring, submitted')
                 /\ unfinished' = unfinished + 1]_vars

\* C4 witness: a submit call was refused while the ring was at capacity, a
\* written back item having been put into the ring again
C4_Witness ==
  /\ \E e \in 1..submitted : e \notin accepted
  /\ Len(ring) = QueueSize
  /\ Requeues >= 1

\* C5: no event is successfully delivered more than once, none is both
\* delivered and written to the dropped store, and only accepted events are
\* delivered.
C5_AtMostOnce ==
  \A e \in Events :
    /\ delivered[e] <= 1
    /\ ~(delivered[e] >= 1 /\ (dropWrites[e] >= 1 \/ Recorded(e)))
    /\ delivered[e] >= 1 => e \in accepted

\* C5 witness: an event was delivered after an item had been written back
\* and put into the ring again, and another event was dropped
C5_Witness ==
  /\ Requeues >= 1
  /\ \E e \in accepted : delivered[e] = 1
  /\ \E e \in accepted : dropWrites[e] = 1

\* C6: an event the primary answered with is_failure was written exactly once
\* to the dropped store, as the one record of a primary_failed file and of no
\* other file; task_done was called once for it; it is not in the ring, the
\* writeback buffer or any consumer's hands (so it is not sent again) and no
\* sink received it.
C6_PrimaryFailureDropped ==
  /\ [](\A e \in pfailed :
          /\ dropWrites[e] = 1
          /\ done[e] = 1
          /\ delivered[e] = 0
          /\ ~Pending(e)
          /\ \A f \in DOMAIN files :
               e \in Range(files[f]) => f[1] = "primary_failed")
  /\ [][\A e \in pfailed' \ pfailed :
          /\ \E t \in Times : /\ files'[<<"primary_failed", t>>] = <<e>>
                              /\ now' = t
          /\ unfinished' = unfinished - 1
          /\ UNCHANGED <<ring, wb, is_healthy>>]_vars

\* C6 witness: the primary has answered an event with is_failure
C6_Witness == \E e \in pfailed : Recorded(e) /\ done[e] = 1

\* C7: an endpoint is never left marked down with no live probe thread (so a
\* key that is down is marked up again once its endpoint answers the probe).
C7_DownHasProbe ==
  \A k \in Keys : ~is_healthy[k] => ThreadAlive(probe_thread[k])

\* C8: at most one probe thread per endpoint key is alive at any instant.
C8_OneProbePerKey == \A k \in Keys : ProbesAlive(k) <= 1

\* C8 witness: a key was marked down again while its probe thread, which had
\* already marked it up, was still alive
C8_Witness ==
  \E k \in Keys : ~is_healthy[k] /\ probe_thread[k] = "exiting"

\* C9: at most one drain thread is alive at any instant.
C9_OneDrainThread == DrainsAlive <= 1

\* C10: with the primary down and the fallback reachable, a fill percentage
\* of 90% or more comes with a live drain thread (the one that empties the
\* queue to the fallback).
C10_DrainStartsAt90 ==
  (~is_healthy["primary"] /\ FillAtLeast(ring, wb, StartPct)) => DrainsAlive >= 1

\* ring length + writeback length, the numerator of fill_percentage()
Fill == Len(ring) + Len(wb)

\* C11: once every submit call has been made, while a sink is marked healthy,
\* no step of a worker, the drain thread or a probe thread increases the
\* fill (ring length + writeback length).
C11_FillNeverRises ==
  [][(submitted = MaxEvents /\ \E k \in Keys : is_healthy[k]) =>
       Fill' <= Fill]_vars

\* a worker calls the sidecar (start_if_socket_not_exists, send_log_over_...)
SidecarCalled ==
  \E w \in Workers, outcome \in EchopostOutcomes : SendToEchopost(w, outcome)

\* a sidecar start or send fails or raises
SidecarFailed ==
  \E w \in Workers, outcome \in EchopostOutcomes \ {"sent"} :
    SendToEchopost(w, outcome)

\* C12: the sidecar latch, once set (by the configuration, a failed start, a
\* failed or raising send), is never cleared; every failing sidecar call sets
\* it; and while it is set no worker calls the sidecar.
C12_LatchSticky ==
  [][/\ echopost_disabled => echopost_disabled'
     /\ SidecarFailed => echopost_disabled'
     /\ echopost_disabled => ~SidecarCalled]_vars

\* C12 witness: the latch was tripped by a sidecar failure (the configuration
\* had it clear) and a worker holds an event while the primary is down
C12_Witness ==
  /\ lpc = "ready"
  /\ ~cfg_echopost_disable
  /\ echopost_disabled
  /\ ~is_healthy["primary"]
  /\ \E w \in Workers : wpc[w] = "got"

\* C13: after a network error of the sidecar binary download, no worker of
\* the processor created in that initialisation calls the sidecar.
C13_NetworkErrorSkipsSidecar ==
  [][download = "network_error" => ~SidecarCalled]_vars

\* C14: flush terminates with the shutdown flag set (whatever the outstanding
\* counter is), a call made once the flag is set starts no helper, and no
\* second helper is ever started, also when two calls overlap.
C14_FlushOnce ==
  /\ \A c \in FlushCallers : fpc[c] = "done" => shutdown
  /\ helpers <= 1
  /\ Cardinality({c \in FlushCallers : fpc[c] = "waiting"}) <= 1

\* C15: when wait_till_logs_pushed returns, every accepted event has been
\* sent or recorded as dropped; none is held by a worker or the drain thread.
C15_PushedMeansSettled ==
  [][(~pushed /\ pushed') =>
       \A e \in accepted :
         ~Pending(e) /\ (delivered[e] >= 1 \/ Recorded(e))]_vars

\* the callers that have their processor
Served == {c \in RegistryCallers : rpc[c] = "done"}

\* C16: one processor per working directory: callers whose paths name the
\* same directory get the same instance, callers of different directories
\* get different instances, and no directory has two instances in the map.
C16_OneProcessorPerDirectory ==
  /\ \A c1, c2 \in Served :
       (Directory(rpath[c1]) = Directory(rpath[c2])) <=> (rres[c1] = rres[c2])
  /\ \A k1, k2 \in RegistryKeys :
       (processors[k1] # 0 /\ processors[k2] # 0
          /\ Follow(Tail(k1), <<"/">>) = Follow(Tail(k2), <<"/">>)) => k1 = k2

\* the same for callers whose keys (absolute path strings) are equal; the
\* part of C16 about concurrent calls
C16_OneProcessorPerKey ==
  /\ \A c1, c2 \in Served :
       (RegistryKey(rpath[c1]) = RegistryKey(rpath[c2])) <=> (rres[c1] = rres[c2])
  /\ built = Cardinality({k \in RegistryKeys : processors[k] # 0})
           + Cardinality({c \in RegistryCallers : rpc[c] = "store"})

\* C17: the dropped store is append-only: a record, once in a file of the
\* store, is in that file after every later step (no drop, whatever its
\* reason and timestamp, removes or overwrites it).
C17_StoreAppendOnly ==
  [][\A f \in DOMAIN files :
       \A e \in Range(files[f]) : e \in Range(files'[f])]_vars

\* the number of flags of the result that are true
FlagsTrue(result) ==
  (IF result.success THEN 1 ELSE 0) + (IF result.is_failure THEN 1 ELSE 0)
    + (IF result.is_unavailable THEN 1 ELSE 0)

\* 2xx -> success, 300..500 -> is_failure, above 500 -> is_unavailable, a
\* transport exception -> is_unavailable
SinkClasses ==
  send_result.returned =>
    IF response.kind = "http"
      THEN /\ send_result.success <=> response.code \in 200..299
           /\ send_result.is_failure <=> response.code \in 300..500
           /\ send_result.is_unavailable <=> response.code > 500
      ELSE send_result.is_unavailable

\* C18 (amended): the classes above, and exactly one of the three flags is
\* true for a transport exception and for every status of 200 or more; for
\* a status below 200 none of them is true.
C18_SinkPartition ==
  /\ SinkClasses
  /\ send_result.returned =>
       FlagsTrue(send_result) =
         (IF response.kind = "http" /\ response.code < 200 THEN 0 ELSE 1)

\* C18 witness: the status 500, the upper end of is_failure, was classified
C18_Witness ==
  /\ send_result.returned
  /\ response.kind = "http"
  /\ response.code = 500
  /\ send_result.is_failure

\* C18 as stated: the classes above, and for every response exactly one of
\* success, is_failure, is_unavailable is true.
C18_ExactlyOneFlag ==
  /\ SinkClasses
  /\ send_result.returned => FlagsTrue(send_result) = 1

\* C19: when the key path of the condition resolves to None, the condition
\* matches exactly when it is negated (false before negation).
C19_NoneNegated ==
  (match_result.returned /\ GetNestedValue(log_dict, condition.key) = VNone) =>
    (match_result.match <=> condition.negate)

\* the condition matches the payload (a condition that raises matches nothing)
Matches(cond) ==
  LET o == ConditionOutcome(log_dict, cond) IN ~o.raised /\ o.match

\* any-match: at least one condition matches; all-match: every one does
ClauseTrue(rule) ==
  IF rule.any_condition_match
    THEN \E i \in DOMAIN rule.conditions : Matches(rule.conditions[i])
    ELSE \A i \in DOMAIN rule.conditions : Matches(rule.conditions[i])

\* the groups with a clause that is true
Contributing ==
  {g \in Range(rule_actions) : \E j \in DOMAIN g.rules : ClauseTrue(g.rules[j])}

\* the result is the union of the pipelines of the contributing groups,
\* without duplicates, and the OR of their stdout flags
UnionOfContributing ==
  /\ Range(rule_result.pipelines) = UNION {g.action.pipelines : g \in Contributing}
  /\ Len(rule_result.pipelines) = Cardinality(Range(rule_result.pipelines))
  /\ rule_result.stdout <=> \E g \in Contributing : g.action.stdout

RawTable(raw) ==
  LET rules == StructuredRules(raw)
  IN  [i \in DOMAIN rules |->
         [action |-> [stdout |-> rules[i].stdout,
                      pipelines |-> Range(rules[i].pipelines)],
          rules |-> <<[any_condition_match |-> rules[i].any_condition_match,
                       conditions |-> rules[i].conditions]>>]]

\* the reference interpreter: each raw rule evaluated on its own
Reference == EvaluateRules(log_dict, RawTable(raw_rules))

SameAsReference ==
  /\ Range(rule_result.pipelines) = Range(Reference.pipelines)
  /\ rule_result.stdout = Reference.stdout

\* no condition of a kept raw rule raises on the payload
NoConditionRaises ==
  \A i \in DOMAIN raw_rules :
    Structured(raw_rules[i]) =>
      \A j \in DOMAIN raw_rules[i].conditions :
        ~ConditionOutcome(log_dict, raw_rules[i].conditions[j]).raised

RaisesAt(rule, k) ==
  /\ ConditionOutcome(log_dict, rule.conditions[k]).raised
  /\ \A i \in 1..(k - 1) :
       LET o == ConditionOutcome(log_dict, rule.conditions[i])
       IN  ~o.raised /\ (o.match <=> ~rule.any_condition_match)

\* evaluating some condition of the table raises
SomeConditionRaises ==
  \E g \in DOMAIN rule_actions :
    \E j \in DOMAIN rule_actions[g].rules :
      \E k \in DOMAIN rule_actions[g].rules[j].conditions :
        RaisesAt(rule_actions[g].rules[j], k)

\* C22: if evaluating a condition raises, evaluate_rules returns ([], False)
\* for the whole event (whatever had matched before) through its except
\* branch; it returns through that branch only then.
C22_ErrorsContained ==
  rule_result.returned =>
    /\ rule_result.error <=> SomeConditionRaises
    /\ SomeConditionRaises =>
         rule_result.pipelines = <<>> /\ ~rule_result.stdout

\* C22 witness: a condition raised after a clause of a group had matched
C22_Witness ==
  /\ rule_result.returned
  /\ rule_result.error
  /\ SomeConditionRaises
  /\ Contributing # {}

\* the events in the ring, in the writeback buffer, in a local copy of the
\* buffer or in a worker's hands
InSafeQueue ==
  Range(ring) \cup Range(wb) \cup ({witem[w] : w \in Workers} \ {0})
    \cup UNION {Range(qbuf[w]) : w \in Workers}

\* C23: writeback_batch conserves events: no step of it (the re-injection of
\* the buffer under the lock, the put of the new item) removes an event from
\* ring + writeback buffer + the items still to be handled, also when the
\* ring is full while the buffer is re-injected.
C23_WritebackBatchConserves ==
  [][(\E w \in Workers : QueueWritebackReinject(w) \/ QueueWritebackNew(w))
       => InSafeQueue \subseteq InSafeQueue']_vars

\* C24: the migration done inside get() conserves events: no step of it
\* removes an event from ring + writeback buffer + the items still to be
\* migrated + the item get returns; when the ring is full the items not yet
\* migrated are put back.
C24_GetMigrationConserves ==
  [][(\E w \in Workers : QueueDrainTake(w) \/ QueueDrainPut(w))
       => InSafeQueue \subseteq InSafeQueue']_vars

\* C26: writeback is FIFO relative to itself: when a written back event
\* enters the ring, no event whose writeback_batch call had returned before
\* its own call began is still waiting to enter.
C26_WritebackFifo ==
  [][\A e \in waiting \ waiting' : before[e] \cap waiting = {}]_vars

\* C25: the outstanding counter (Queue.unfinished_tasks) equals the number
\* of accepted events not yet acknowledged by task_done, so it is 0, and
\* join returns, once every accepted event was acknowledged.
C25_OutstandingAccounting ==
  unfinished = Cardinality(accepted) - SumUpTo(done, Cardinality(Events))

\* C27: whatever the send comes back with (success, is_failure,
\* is_unavailable, none of the three flags, an exception), the step in which
\* a worker handles its event ends with the event either acknowledged by
\* exactly one task_done or back in the queue.
C27_AckedOrRequeued ==
  [][\A w \in Workers :
       (wpc[w] = "got" /\ wpc'[w] # "got") =>
         LET e == witem[w]
         IN  \/ done'[e] = done[e] + 1 /\ e \notin Range(ring') \cup Range(wb')
             \/ done'[e] = done[e] /\ e \in Range(ring') \cup Range(wb')]_vars

\* C28: a worker handles its event by the route of the health state it
\* reads: primary up -> a primary send of that one event; primary down,
\* sidecar disabled, fallback up -> the fallback batch path; primary down,
\* sidecar disabled, fallback down -> the event is written back and nothing
\* is sent; primary down, sidecar enabled -> the sidecar path.  A worker that
\* read the primary as up sends nothing to the fallback or the sidecar.
C28_WorkerRouting ==
  [][\A w \in Workers :
       (wpc[w] = "got" /\ wpc'[w] # "got") =>
         IF is_healthy["primary"]
           THEN /\ \E resp \in RoutingResponses : SendToPrimary(w, resp)
                /\ \A e \in Events \ {witem[w]} : delivered'[e] = delivered[e]
                /\ UNCHANGED <<echopost_disabled, is_healthy["fallback"]>>
         ELSE IF ~echopost_disabled
           THEN \E outcome \in EchopostOutcomes : SendToEchopost(w, outcome)
         ELSE IF is_healthy["fallback"]
           THEN \E resp \in RoutingResponses : SendToFallback(w, resp)
           ELSE /\ RequeueFallbackDown(w)
                /\ witem[w] \in Range(ring') \cup Range(wb')
                /\ UNCHANGED <<delivered, done, dropWrites>>]_vars

\* C28 witness: a worker holds an event that came back through a writeback
\* while the primary and the fallback are marked down and the sidecar is
\* disabled: the route that sends nothing
C28_Witness ==
  /\ ~is_healthy["primary"]
  /\ ~is_healthy["fallback"]
  /\ echopost_disabled
  /\ Requeues >= 2
  /\ \E w \in Workers : wpc[w] = "got" /\ RouteNow = "writeback"

\* the dequeued event and up to 99 further events from the head of the ring
FallbackBatchOf(w) == {witem[w]} \cup Range(Take(ring, FallbackBatchExtra))

CopiesAfter(e) ==
  Cardinality({i \in DOMAIN ring' : ring'[i] = e})
    + Cardinality({i \in DOMAIN wb' : wb'[i] = e})

\* C30: when the sidecar start fails, or the sidecar send returns false or
\* raises, the event is written back exactly once (one copy in ring +
\* writeback buffer, no task_done, no dropped record, no delivery) and the
\* sidecar-disabled latch is set; when the send returned true, and only
\* then, task_done is called for the event.
C30_SidecarOutcomes ==
  [][\A w \in Workers, outcome \in EchopostOutcomes :
       SendToEchopost(w, outcome) =>
         LET e == witem[w]
         IN  IF outcome = "sent"
               THEN done'[e] = done[e] + 1 /\ CopiesAfter(e) = 0
               ELSE /\ echopost_disabled'
                    /\ CopiesAfter(e) = 1
                    /\ done'[e] = done[e]
                    /\ dropWrites'[e] = dropWrites[e]
                    /\ delivered'[e] = delivered[e]]_vars

\* C30 witness: a sidecar failure has tripped the latch (the configuration
\* had the sidecar enabled) and its event waits in the writeback buffer,
\* unacknowledged
C30_Witness ==
  /\ ~cfg_echopost_disable
  /\ echopost_disabled
  /\ \E e \in Range(wb) : done[e] = 0 /\ delivered[e] = 0


\* C31: racing starts are serialized: at no time are there two spawned
\* sidecar processes that have not yet created their socket (a second caller
\* does not delete the socket path and spawn again while the first spawned
\* process is still coming up)
C31_StartSerialized == binding <= 1


\* C32: a drain thread that takes an empty batch from the ring leaves the
\* loop: from the loop test with the ring empty, the thread's next position
\* is the exit path (also when the writeback list alone keeps fill above 10%)
C32_EmptyBatchExits ==
  [][drain_thread = "loop" /\ ring = <<>> /\ drain_thread' # drain_thread
       => drain_thread' = "finally"]_vars


\* a step in which start_if_needed starts a drain thread
DrainSpawned ==
  \/ drain_thread = "dead" /\ drain_thread' = "loop"
  \/ drain_orphans' > drain_orphans

\* C33: a drain thread is started only by a start_if_needed call that sees
\* fill >= 90% while no drain thread is alive; the drain thread takes a batch
\* only while fill > 10%; and a drain thread that has exited has left the
\* running flag reset, so that the next start_if_needed at 90% starts one
C33_DrainWatermarks ==
  [][/\ DrainSpawned =>
          FillAtLeast(ring', wb', StartPct) /\ DrainsAlive = 0
     /\ (drain_thread = "loop" /\ drain_thread' = "send") =>
          FillAbove(ring, wb, StopPct)
     /\ (drain_thread' = "dead" /\ drain_orphans' = 0) => ~is_running']_vars


\* the responses for which send_fn returns a result
ResultResponses == {r \in Responses : r.kind # "raise"}

AllStopped == \A w \in Workers : wpc[w] = "stopped"

\* the requeue count leaves room for one more writeback
RequeuesLeft == Requeues + QueueSize <= MaxRequeues

Copies(q, e) == Cardinality({i \in DOMAIN q : q[i] = e})

\* number of places that hold e: positions of the ring, of the writeback
\* buffer and of the drain thread's batch, and workers
Owners(e) ==
  Copies(ring, e) + Copies(wb, e) + Copies(dbatch, e)
    + Cardinality({w \in Workers : witem[w] = e})

\* e was neither acknowledged, delivered nor stored as dropped
Unsettled(e) == done[e] = 0 /\ delivered[e] = 0 /\ ~Recorded(e)

QueueStep(w) ==
  \/ QueueDrainTake(w)
  \/ QueueDrainPut(w)
  \/ QueueGetSecond(w)
  \/ QueueWritebackReinject(w)
  \/ QueueWritebackNew(w)

\* C37: self._lock is held only by a worker that is re-injecting buffered
\* items inside writeback_batch, where every ring operation is a put_nowait:
\* the holder's next step is always possible (within the requeue bound), and
\* so is the next step of any worker inside get() or writeback_batch() once
\* the lock is free; a submitter's add never waits for the lock
C37_LockDiscipline ==
  /\ qlock # 0 =>
       /\ wpc[qlock] = "reinject"
       /\ Requeues < MaxRequeues => ENABLED QueueWritebackReinject(qlock)
  /\ \A w \in Workers :
       (qlock = 0 /\ wpc[w] \notin {"idle", "got"} /\ Requeues < MaxRequeues)
         => ENABLED QueueStep(w)
  /\ submitted < OutageEvents => ENABLED Submit(OutageEvents)

\* C37 witness: a worker re-injects buffered items under the lock while the
\* ring is full, another worker is inside get() at its writeback drain, and
\* a submit call is still to come
C37_Witness ==
  /\ qlock # 0
  /\ Len(ring) = QueueSize
  /\ \E w \in Workers : w # qlock /\ wpc[w] = "drain"
  /\ submitted < OutageEvents


\* the endpoints a monitor knows: a host as primary or as fallback
Endpoints == Hosts \X BOOLEAN

\* C38: a key that is not in the map reads as up; set_health_down and the
\* probe thread of one endpoint leave the reading of every other endpoint
\* as it was, in particular that of the same host in the other role
C38_KeysIndependent ==
  /\ [](\A x \in Endpoints :
          GetKey(x[1], x[2]) \notin DOMAIN hm_is_healthy
            => IsServerUp(x[1], x[2]))
  /\ [][\A x \in Endpoints :
          (\/ MonitorSetHealthDown(x[1], x[2])
           \/ MonitorProbeRecover(x[1], x[2])
           \/ MonitorProbeExit(x[1], x[2]))
            => \A y \in Endpoints \ {x} :
                 /\ IsServerUp(y[1], y[2])' = IsServerUp(y[1], y[2])
                 /\ DictGet(hm_check_threads, GetKey(y[1], y[2]), "dead")'
                      = DictGet(hm_check_threads, GetKey(y[1], y[2]), "dead")]_vars

\* C38 witness: for one host, the fallback key is down with its probe thread
\* running while the primary key, marked down earlier and recovered by its
\* own probe thread, reads as up
C38_Witness ==
  \E h \in Hosts :
    /\ ~IsServerUp(h, TRUE)
    /\ DictGet(hm_check_threads, GetKey(h, TRUE), "dead") = "run"
    /\ GetKey(h, FALSE) \in DOMAIN hm_is_healthy
    /\ IsServerUp(h, FALSE)


\* C39: in a compiled rule table no group has an action with neither stdout
\* nor a pipeline, and no two groups have the same Action (same stdout flag,
\* same set of pipelines)
C39_GroupsDistinct ==
  compiled =>
    /\ \A i \in DOMAIN rule_actions :
         rule_actions[i].action.stdout \/ rule_actions[i].action.pipelines # {}
    /\ \A i, j \in DOMAIN rule_actions :
         rule_actions[i].action = rule_actions[j].action => i = j

=============================================================================
